---------------------------- MODULE Spec2Model ----------------------------
(***************************************************************************)
(* Model of the staged survey-generation pipeline (src/src/*.py).          *)
(*                                                                         *)
(* Text is modelled character by character: a Python str is a sequence of  *)
(* one-character strings, so that strip(), split(), slicing with fixed     *)
(* offsets and the regular expressions of the verifiers are computed as    *)
(* the code computes them.  Directories are functions from the paper ids   *)
(* that have a file to the JSON document stored in that file.              *)
(***************************************************************************)
EXTENDS Integers, Sequences, FiniteSets, TLC

VARIABLES
    prompts,          \* keys present in prompts.yaml
    train_dir,        \* train/train<id>.content.ref.json
    test_dir,         \* test/<id>.txt
    title_dir,        \* title/<id>.json
    outline_dir,      \* outline/<id>.json
    abstract_dir,     \* abstract/<id>.json
    references_dir,   \* references/<id>.json
    subsections_dir,  \* subsections/<id>.json
    content_dir,      \* content/<id>.json
    final_dir,        \* final/<id>.xml
    pc,               \* the step of generate_survey (or of a stage's main) in progress
    phase,            \* "init": the stage object is not built yet; "loop": iterating papers
    prompt,           \* self.prompt of the stage object
    todo,             \* papers of the directory listing not yet iterated
    paper,            \* the paper of the current loop iteration, or NoPaper
    paper_info,       \* what the stage read for that paper
    sec_i,            \* index of the current section in the section loop
    sub_i,            \* index of the current subsection (Content stage)
    messages,         \* the conversation of the current generation
    retry_count,      \* retry_count of the bounded loops
    acc,              \* section_refs / section_subsections / content_data being built
    acc2,             \* section_content being built (Content stage)
    ncalls,           \* history: model calls issued in the current generation
    last,             \* history: how the last generation ended
    provenance,       \* history: the response each generated value was taken from
    order_log         \* history: stages in the order they called the model or wrote

vars == <<prompts, train_dir, test_dir, title_dir, outline_dir, abstract_dir,
          references_dir, subsections_dir, content_dir, final_dir, pc, phase,
          prompt, todo, paper, paper_info, sec_i, sub_i, messages, retry_count,
          acc, acc2, ncalls, last, provenance, order_log>>

disk == <<prompts, train_dir, test_dir, title_dir, outline_dir, abstract_dir,
          references_dir, subsections_dir, content_dir, final_dir>>

inputs == <<prompts, train_dir, test_dir>>
ctl == <<pc, phase, prompt, todo>>
loopvars == <<paper, paper_info, sec_i, sub_i, messages, retry_count, acc, acc2, ncalls>>
hist == <<last, provenance, order_log>>

(***************************************************************************)
(* Bounds of the model.                                                    *)
(***************************************************************************)
\* Cap on the model calls of one generation in the loops the code leaves unbounded.
MaxAttempts == 3

\* The same for the loop of the Reference-Selection stage.
MaxRefsAttempts == 4

Papers == {"9901.001", "9901.002"}
NoPaper == "none"

(***************************************************************************)
(* Python str operations on character sequences.                           *)
(***************************************************************************)
Ws == {" ", "\n"}

IsBlank(s) == \A i \in 1..Len(s) : s[i] \in Ws

\* str.strip()
Strip(s) ==
    IF IsBlank(s) THEN <<>>
    ELSE LET n == Len(s)
             lo == CHOOSE i \in 1..n :
                       s[i] \notin Ws /\ \A j \in 1..(i-1) : s[j] \in Ws
             back == CHOOSE k \in 1..n :
                       s[n + 1 - k] \notin Ws /\ \A j \in 1..(k-1) : s[n + 1 - j] \in Ws
         IN  SubSeq(s, lo, n + 1 - back)

\* str.startswith / str.endswith
StartsWith(s, p) ==
    Len(p) <= Len(s) /\ \A k \in 1..Len(p) : s[k] = p[k]

EndsWith(s, p) ==
    Len(p) <= Len(s) /\ \A k \in 1..Len(p) : s[Len(s) - Len(p) + k] = p[k]

\* s[a:-b] with a >= 0 and b > 0
Slice(s, a, b) ==
    IF Len(s) - b <= a THEN <<>> ELSE SubSeq(s, a + 1, Len(s) - b)

\* s[a:]
SliceFrom(s, a) ==
    IF Len(s) <= a THEN <<>> ELSE SubSeq(s, a + 1, Len(s))

\* Whether p is in s at position i.
Occurs(s, p, i) ==
    /\ s[i] = p[1]
    /\ i + Len(p) - 1 <= Len(s)
    /\ \A k \in 2..Len(p) : s[i + k - 1] = p[k]

\* The positions at or after position from where p is in s.
MatchesFrom(s, p, from) == {i \in from..Len(s) : Occurs(s, p, i)}

Least(S) == CHOOSE x \in S : \A y \in S : x <= y

\* str.find(p) + 1: the first position where p occurs in s, 0 when there is none
Find(s, p) ==
    LET m == MatchesFrom(s, p, 1)
    IN  IF m = {} THEN 0 ELSE Least(m)

\* str.split(sep) with an explicit, non-empty separator: the scan that cuts s at each
\* leftmost match of sep found after the previous cut.
RECURSIVE SplitFrom(_, _, _, _)
SplitFrom(s, sep, from, matches) ==
    LET m == {i \in matches : i >= from}
    IN  IF m = {} THEN <<SubSeq(s, from, Len(s))>>
        ELSE <<SubSeq(s, from, Least(m) - 1)>>
                 \o SplitFrom(s, sep, Least(m) + Len(sep), matches)

Split(s, sep) == SplitFrom(s, sep, 1, MatchesFrom(s, sep, 1))

\* len(s.split()): the number of maximal runs of non-whitespace characters
WordCount(s) ==
    Cardinality({i \in 1..Len(s) : s[i] \notin Ws /\ (i = 1 \/ s[i-1] \in Ws)})

\* [x.strip() for x in s.split(sep) if x.strip()]
RECURSIVE StripNonBlank(_)
StripNonBlank(parts) ==
    IF parts = <<>> THEN <<>>
    ELSE IF IsBlank(Head(parts)) THEN StripNonBlank(Tail(parts))
         ELSE <<Strip(Head(parts))>> \o StripNonBlank(Tail(parts))

NonBlankLines(s) == StripNonBlank(Split(s, <<"\n">>))

\* '\n'.join(parts)
RECURSIVE JoinLines(_)
JoinLines(parts) ==
    IF parts = <<>> THEN <<>>
    ELSE IF Len(parts) = 1 THEN parts[1]
         ELSE parts[1] \o <<"\n">> \o JoinLines(Tail(parts))

\* re.sub(r'<open>|<close>', '', s): the scan that drops each leftmost match of one
\* of the two markers found after the previous match and keeps the text in between.
RECURSIVE ReSubFrom(_, _, _, _, _)
ReSubFrom(s, from, opens, closes, lens) ==
    LET m == {i \in opens \cup closes : i >= from}
    IN  IF m = {} THEN SubSeq(s, from, Len(s))
        ELSE LET i == Least(m)
             IN  SubSeq(s, from, i - 1)
                     \o ReSubFrom(s, i + (IF i \in opens THEN lens[1] ELSE lens[2]),
                                  opens, closes, lens)

ReSubTags(s, open, close) ==
    ReSubFrom(s, 1, MatchesFrom(s, open, 1), MatchesFrom(s, close, 1),
              <<Len(open), Len(close)>>)

Digits == {"0", "1", "2", "3", "4", "5", "6", "7", "8", "9"}

\* re.search(r'\[\d+\]', s)
HasCitation(s) ==
    \E i \in 1..Len(s) :
        /\ s[i] = "["
        /\ \E j \in (i+2)..Len(s) :
               s[j] = "]" /\ \A k \in (i+1)..(j-1) : s[k] \in Digits

\* n copies of unit, one after the other
Rep(unit, n) ==
    [i \in 1..(n * Len(unit)) |-> unit[((i - 1) % Len(unit)) + 1]]

(***************************************************************************)
(* The wrapping markers.                                                   *)
(***************************************************************************)
TitleOpen == <<"<","t","i","t","l","e",">">>
TitleClose == <<"<","/","t","i","t","l","e",">">>
AbstractOpen == <<"<","a","b","s","t","r","a","c","t",">">>
AbstractClose == <<"<","/","a","b","s","t","r","a","c","t",">">>
ContentOpen == <<"<","c","o","n","t","e","n","t",">">>
ContentClose == <<"<","/","c","o","n","t","e","n","t",">">>
SubsectionsOpen == <<"<","s","u","b","s","e","c","t","i","o","n","s",">">>
SubsectionsClose == <<"<","/","s","u","b","s","e","c","t","i","o","n","s",">">>
RefsOpen == <<"<","r","e","f","s",">">>
RefsClose == <<"<","/","r","e","f","s",">">>
OutlineOpen == <<"<","o","u","t","l","i","n","e",">">>
OutlineClose == <<"<","/","o","u","t","l","i","n","e",">">>
Introduction == <<"I","n","t","r","o","d","u","c","t","i","o","n">>
Conclusion == <<"C","o","n","c","l","u","s","i","o","n">>
Reserved == {Introduction, Conclusion}


\* A save that writes the document under every paper of the directory.
Put_Everywhere(dir, p, doc) ==
    [q \in (DOMAIN dir) \cup {p} |-> doc]

(***************************************************************************)
(* Small helpers: directories, dictionaries, history.                      *)
(***************************************************************************)
\* Writing a file: open(path, 'w') + dump replaces the whole document.
Put(dir, p, doc) ==
    [q \in (DOMAIN dir) \cup {p} |-> IF q = p THEN doc ELSE dir[q]]

NoFiles == <<>>

\* A Python dict as the sequence of its (key, value) items in insertion order.
DictHas(d, k) == \E i \in 1..Len(d) : d[i].key = k

DictGet(d, k) == d[CHOOSE i \in 1..Len(d) : d[i].key = k].value

\* d[k] = v: a new key goes last, an existing key keeps its place
DictSet(d, k, v) ==
    IF DictHas(d, k)
    THEN [i \in 1..Len(d) |-> IF d[i].key = k THEN [key |-> k, value |-> v] ELSE d[i]]
    ELSE Append(d, [key |-> k, value |-> v])

DictKeys(d) == {d[i].key : i \in 1..Len(d)}

NoInfo ==
    [subject |-> "", title |-> <<>>, outline |-> <<>>, references |-> <<>>,
     section_refs |-> <<>>, subsections |-> <<>>]

NoLast ==
    [stage |-> "none", paper |-> NoPaper, section |-> <<>>, subsection |-> <<>>,
     raw |-> <<>>, response |-> <<>>, ncalls |-> 0, accepted |-> FALSE,
     raised |-> FALSE]

LogStage(s) ==
    IF order_log # <<>> /\ order_log[Len(order_log)] = s
    THEN order_log ELSE Append(order_log, s)

\* template.format(**args): the empty template formats to the empty string
FormatPrompt(template, args) ==
    IF template = "" THEN <<>> ELSE <<[template |-> template, args |-> args]>>

UserMessage(content) == [role |-> "user", content |-> content]
AssistantMessage(content) == [role |-> "assistant", content |-> content]

\* An extension by the correction alone.
ExtendMessages_CorrectionOnly(msgs, response, correction) ==
    msgs \o <<UserMessage(correction)>>

\* messages.extend([assistant: response, user: correction])
ExtendMessages(msgs, response, correction) ==
    msgs \o <<AssistantMessage(response), UserMessage(correction)>>

\* The local state of a paper loop between two iterations.
IdleLoop ==
    /\ paper' = NoPaper
    /\ paper_info' = NoInfo
    /\ sec_i' = 0
    /\ sub_i' = 0
    /\ messages' = <<>>
    /\ retry_count' = 0
    /\ acc' = <<>>
    /\ acc2' = <<>>
    /\ ncalls' = 0

(***************************************************************************)
(* The orchestrator (main.py): the steps of generate_survey, one after the *)
(* other.  pc names the step that is running.                              *)
(***************************************************************************)
Done == "done"
Aborted == "aborted"

\* An orchestrator that builds the subsections before it selects the references.
NextStage_SubsectionsBeforeReferences(step) ==
    CASE step = "split" -> "title"
      [] step = "title" -> "outline"
      [] step = "outline" -> "abstract"
      [] step = "abstract" -> "subsections"
      [] step = "subsections" -> "references"
      [] step = "references" -> "content"
      [] step = "content" -> "final"
      [] step = "final" -> Done

\* SurveyGenerator.generate_survey: the step that follows a step
\* An orchestrator that goes over the Content step again when it has run.
NextStage_RepeatsContent(step) ==
    CASE step = "split" -> "title"
      [] step = "title" -> "outline"
      [] step = "outline" -> "abstract"
      [] step = "abstract" -> "references"
      [] step = "references" -> "subsections"
      [] step = "subsections" -> "content"
      [] step = "content" -> "content"
      [] step = "final" -> Done

NextStage(step) ==
    CASE step = "split" -> "title"
      [] step = "title" -> "outline"
      [] step = "outline" -> "abstract"
      [] step = "abstract" -> "references"
      [] step = "references" -> "subsections"
      [] step = "subsections" -> "content"
      [] step = "content" -> "final"
      [] step = "final" -> Done

(***************************************************************************)
(* Ingestion: traintestsplit.py writes test/<id>.txt from the raw record.  *)
(* A line of the text file is its leading marker and the rest of the line. *)
(***************************************************************************)
Ln(tag, text) == [tag |-> tag, text |-> text]
BlankLine == Ln("", "")

\* A lookup in which the first item of a key wins.
ReferenceAbstract_FirstWins(rc, n) ==
    LET idx == {i \in 1..Len(rc) : rc[i].reference_num = n}
    IN  IF idx = {} THEN ""
        ELSE rc[CHOOSE i \in idx : \A j \in idx : i <= j].reference_abstract

\* reference_content_dict.get("[n]", ""): in the dict the last item of a key wins
ReferenceAbstract(rc, n) ==
    LET idx == {i \in 1..Len(rc) : rc[i].reference_num = n}
    IN  IF idx = {} THEN ""
        ELSE rc[CHOOSE i \in idx : \A j \in idx : j <= i].reference_abstract

save_references_and_subject_as_txt(rec) ==
    LET refs == rec.reference
        refLines ==
            [k \in 1..(4 * Len(refs)) |->
                LET n == ((k - 1) \div 4) + 1
                    f == (k - 1) % 4
                IN  IF f = 0 THEN Ln("Number:", ToString(n))
                    ELSE IF f = 1 THEN Ln("Title:", refs[n])
                    ELSE IF f = 2
                         THEN Ln("Abstract:", ReferenceAbstract(rec.reference_content, n))
                    ELSE BlankLine]
    IN  <<Ln("Subjects:", "")>>
            \o [i \in 1..Len(rec.subject) |-> Ln("", rec.subject[i])]
            \o <<BlankLine, Ln("References:", "")>>
            \o refLines
            \o <<BlankLine>>

\* process_all_json_files_and_save_txt: one text file per raw record, written over
\* the file of an earlier run.
process_all_json_files_and_save_txt ==
    /\ pc = "split"
    /\ test_dir' = [p \in DOMAIN train_dir \cup DOMAIN test_dir |->
                       IF p \in DOMAIN train_dir
                       THEN save_references_and_subject_as_txt(train_dir[p])
                       ELSE test_dir[p]]
    /\ pc' = NextStage(pc)
    /\ order_log' = LogStage("split")
    /\ UNCHANGED <<prompts, train_dir, title_dir, outline_dir, abstract_dir,
                   references_dir, subsections_dir, content_dir, final_dir,
                   phase, prompt, todo, loopvars, last, provenance>>

(***************************************************************************)
(* Title stage (title.py).                                                 *)
(***************************************************************************)
\* TitleAgent._extract_content: the loop over the lines of the text file
RECURSIVE TitleExtractContent(_, _, _, _)
TitleExtractContent(lines, subject, references, current_section) ==
    IF lines = <<>> THEN [subject |-> subject, references |-> references]
    ELSE LET line == Head(lines)
             rest == Tail(lines)
         IN  IF line = Ln("Subjects:", "")
             THEN TitleExtractContent(rest, subject, references, "subjects")
             ELSE IF line = Ln("References:", "")
             THEN TitleExtractContent(rest, subject, references, "references")
             ELSE IF line # BlankLine /\ current_section = "subjects"
             THEN TitleExtractContent(rest, line.text, references, current_section)
             ELSE IF line # BlankLine /\ current_section = "references"
                         /\ line.tag = "Title:"
             THEN TitleExtractContent(rest, subject, Append(references, line.text),
                                      current_section)
             ELSE TitleExtractContent(rest, subject, references, current_section)

\* bool('\n'.join(references))
JoinedNonEmpty(references) ==
    Len(references) >= 2 \/ (Len(references) = 1 /\ references[1] # "")

\* A verifier that lets every response through.
VerifyTitleFormat_Lenient(title) == TRUE

\* TitleAgent._verify_title_format: re.match(r'^<title>.*</title>$', title.strip())
VerifyTitleFormat(title) ==
    LET s == Strip(title)
    IN  /\ Len(s) >= Len(TitleOpen) + Len(TitleClose)
        /\ StartsWith(s, TitleOpen)
        /\ EndsWith(s, TitleClose)
        /\ \A i \in (Len(TitleOpen) + 1)..(Len(s) - Len(TitleClose)) : s[i] # "\n"

TitleCorrection ==
    <<"The response format is incorrect. Please wrap your title in <title> tags. For example: <title>Your Title Here</title>">>

\* A save that stores the bare title instead of the response.
TitleDoc_StripsMarkers(paper_id, title) ==
    [paper_id |-> paper_id, title |-> Strip(ReSubTags(title, TitleOpen, TitleClose))]

\* TitleAgent._save_title
TitleDoc(paper_id, title) == [paper_id |-> paper_id, title |-> title]

\* TitleAgent.__init__ (with _load_prompt) and the directory listing of process_folder
TitleStart ==
    /\ pc = "title" /\ phase = "init"
    /\ phase' = "loop"
    /\ prompt' = IF "title_prompt" \in prompts THEN "title_prompt" ELSE ""
    /\ todo' = DOMAIN test_dir
    /\ UNCHANGED <<disk, pc, loopvars, hist>>

\* One iteration of process_folder up to the first model call.
TitlePaper(p) ==
    /\ pc = "title" /\ phase = "loop" /\ paper = NoPaper
    /\ p \in todo
    /\ todo' = todo \ {p}
    /\ LET ref_data == TitleExtractContent(test_dir[p], "", <<>>, "")
       IN  IF ref_data.subject # "" /\ JoinedNonEmpty(ref_data.references)
           THEN /\ paper' = p
                /\ paper_info' = [NoInfo EXCEPT !.subject = ref_data.subject,
                                                !.references = ref_data.references]
                /\ messages' = <<UserMessage(FormatPrompt(prompt,
                                     [subject |-> ref_data.subject,
                                      references |-> ref_data.references]))>>
           ELSE UNCHANGED <<paper, paper_info, messages>>
    /\ UNCHANGED <<disk, pc, phase, prompt, sec_i, sub_i, retry_count, acc, acc2,
                   ncalls, hist>>

\* One turn of the while True loop of _get_title_from_gpt: the model answers r.
\* An accepted answer is returned to process_folder, which saves it.
TitleCall(r) ==
    /\ pc = "title" /\ phase = "loop" /\ paper # NoPaper
    /\ LET title == Strip(r)
       IN  IF VerifyTitleFormat(title)
           THEN /\ title_dir' = Put(title_dir, paper, TitleDoc(paper, title))
                /\ last' = [NoLast EXCEPT !.stage = "title", !.paper = paper,
                                          !.raw = r, !.response = title,
                                          !.ncalls = ncalls + 1, !.accepted = TRUE]
                /\ IdleLoop
           ELSE /\ ncalls + 1 < MaxAttempts
                /\ messages' = ExtendMessages(messages, title, TitleCorrection)
                /\ ncalls' = ncalls + 1
                /\ UNCHANGED <<title_dir, last, paper, paper_info, sec_i, sub_i,
                               retry_count, acc, acc2>>
    /\ order_log' = LogStage("title")
    /\ UNCHANGED <<inputs, outline_dir, abstract_dir, references_dir, subsections_dir,
                   content_dir, final_dir, ctl, provenance>>

\* A stage in which a failed model call ends the whole run.
TitleRaise_Aborts ==
    /\ pc = "title" /\ phase = "loop" /\ paper # NoPaper
    /\ pc' = Aborted
    /\ last' = [NoLast EXCEPT !.stage = "title", !.paper = paper,
                              !.ncalls = ncalls + 1, !.raised = TRUE]
    /\ order_log' = LogStage("title")
    /\ UNCHANGED <<disk, phase, prompt, todo, loopvars, provenance>>

\* The model call raises: _get_title_from_gpt returns "" and process_folder saves it.
TitleRaise ==
    /\ pc = "title" /\ phase = "loop" /\ paper # NoPaper
    /\ title_dir' = Put(title_dir, paper, TitleDoc(paper, <<>>))
    /\ last' = [NoLast EXCEPT !.stage = "title", !.paper = paper,
                              !.ncalls = ncalls + 1, !.raised = TRUE]
    /\ IdleLoop
    /\ order_log' = LogStage("title")
    /\ UNCHANGED <<inputs, outline_dir, abstract_dir, references_dir, subsections_dir,
                   content_dir, final_dir, ctl, provenance>>

\* process_folder returns: the orchestrator goes on to the next step.
TitleDone ==
    /\ pc = "title" /\ phase = "loop" /\ paper = NoPaper /\ todo = {}
    /\ pc' = NextStage(pc)
    /\ phase' = "init"
    /\ UNCHANGED <<disk, prompt, todo, loopvars, hist>>

\* _read_title_from_file (abstract.py) and the same lines of the other readers:
\* re.sub(r'<title>|</title>', '', title).strip(), "" when there is no file
ReadTitle(dir, p) ==
    IF p \notin DOMAIN dir THEN <<>>
    ELSE Strip(ReSubTags(dir[p].title, TitleOpen, TitleClose))

(***************************************************************************)
(* Outline stage (outline.py).                                             *)
(***************************************************************************)
\* OutlineAgent._extract_content: as the Title stage's, and an "Abstract:" line is
\* appended to the last reference (here: the reference becomes <<title, abstract>>).
RECURSIVE OutlineExtractContent(_, _, _, _)
OutlineExtractContent(lines, subject, references, current_section) ==
    IF lines = <<>> THEN [subject |-> subject, references |-> references]
    ELSE LET line == Head(lines)
             rest == Tail(lines)
         IN  IF line = Ln("Subjects:", "")
             THEN OutlineExtractContent(rest, subject, references, "subjects")
             ELSE IF line = Ln("References:", "")
             THEN OutlineExtractContent(rest, subject, references, "references")
             ELSE IF line # BlankLine /\ current_section = "subjects"
             THEN OutlineExtractContent(rest, line.text, references, current_section)
             ELSE IF line # BlankLine /\ current_section = "references"
                         /\ line.tag = "Title:"
             THEN OutlineExtractContent(rest, subject,
                                        Append(references, <<line.text>>), current_section)
             ELSE IF line # BlankLine /\ current_section = "references"
                         /\ line.tag = "Abstract:" /\ references # <<>>
             THEN OutlineExtractContent(rest, subject,
                      [references EXCEPT ![Len(references)] = @ \o <<line.text>>],
                      current_section)
             ELSE OutlineExtractContent(rest, subject, references, current_section)

\* bool('\n'.join(references)) for references that may carry "\nAbstract: ..."
OutlineJoinedNonEmpty(references) ==
    \/ Len(references) >= 2
    \/ Len(references) = 1 /\ (Len(references[1]) > 1 \/ references[1][1] # "")

OutlineMinSections == 6
OutlineMaxSections == 10

\* OutlineAgent._verify_outline_format, and the same test inlined in _get_outline_from_gpt
VerifyOutlineFormat(outline) ==
    LET sections == NonBlankLines(Strip(outline))
    IN  OutlineMinSections <= Len(sections) /\ Len(sections) <= OutlineMaxSections

OutlineCorrection ==
    <<"Please provide between 6 and 10 sections (excluding Introduction and Conclusion). Each section should be on a new line.">>

\* OutlineAgent._save_outline
OutlineDoc(paper_id, outline) ==
    [paper_id |-> paper_id, sections |-> NonBlankLines(outline)]

\* OutlineAgent.__init__: a missing key falls back to the built-in default prompt
OutlineStart ==
    /\ pc = "outline" /\ phase = "init"
    /\ phase' = "loop"
    /\ prompt' = IF "outline_prompt" \in prompts THEN "outline_prompt"
                 ELSE "default_outline_prompt"
    /\ todo' = DOMAIN test_dir
    /\ UNCHANGED <<disk, pc, loopvars, hist>>

OutlinePaper(p) ==
    /\ pc = "outline" /\ phase = "loop" /\ paper = NoPaper
    /\ p \in todo
    /\ todo' = todo \ {p}
    /\ LET ref_data == OutlineExtractContent(test_dir[p], "", <<>>, "")
       IN  IF ref_data.subject # "" /\ OutlineJoinedNonEmpty(ref_data.references)
           THEN /\ paper' = p
                /\ paper_info' = [NoInfo EXCEPT !.subject = ref_data.subject,
                                                !.references = ref_data.references]
                /\ messages' = <<UserMessage(FormatPrompt(prompt,
                                     [subject |-> ref_data.subject,
                                      references |-> ref_data.references]))>>
           ELSE UNCHANGED <<paper, paper_info, messages>>
    /\ UNCHANGED <<disk, pc, phase, prompt, sec_i, sub_i, retry_count, acc, acc2,
                   ncalls, hist>>

\* A stage that corrects the answer twice before it returns one as it is.
OutlineReturns_ThreeCalls(n, outline) == n >= 3 \/ VerifyOutlineFormat(outline)

\* A loop that asks again until the verifier accepts the answer.
OutlineReturns_UntilAccepted(n, outline) == VerifyOutlineFormat(outline)

\* Whether _get_outline_from_gpt returns the answer to its call number n.
OutlineReturns(n, outline) == n >= 2 \/ VerifyOutlineFormat(outline)

\* A model call of _get_outline_from_gpt answered by r: the first answer is returned
\* when it has 6..10 non-blank lines, the second answer is returned as it is.
OutlineCall(r) ==
    /\ pc = "outline" /\ phase = "loop" /\ paper # NoPaper
    /\ LET outline == Strip(r)
       IN  IF OutlineReturns(ncalls + 1, outline)
           THEN /\ outline_dir' = Put(outline_dir, paper, OutlineDoc(paper, outline))
                /\ last' = [NoLast EXCEPT !.stage = "outline", !.paper = paper,
                                          !.raw = r, !.response = outline,
                                          !.ncalls = ncalls + 1,
                                          !.accepted = VerifyOutlineFormat(outline)]
                /\ IdleLoop
           ELSE /\ messages' = ExtendMessages(messages, outline, OutlineCorrection)
                /\ ncalls' = ncalls + 1
                /\ UNCHANGED <<outline_dir, last, paper, paper_info, sec_i, sub_i,
                               retry_count, acc, acc2>>
    /\ order_log' = LogStage("outline")
    /\ UNCHANGED <<inputs, title_dir, abstract_dir, references_dir, subsections_dir,
                   content_dir, final_dir, ctl, provenance>>

\* A model call raises: _get_outline_from_gpt returns "", saved as an empty section list.
OutlineRaise ==
    /\ pc = "outline" /\ phase = "loop" /\ paper # NoPaper
    /\ outline_dir' = Put(outline_dir, paper, OutlineDoc(paper, <<>>))
    /\ last' = [NoLast EXCEPT !.stage = "outline", !.paper = paper,
                              !.ncalls = ncalls + 1, !.raised = TRUE]
    /\ IdleLoop
    /\ order_log' = LogStage("outline")
    /\ UNCHANGED <<inputs, title_dir, abstract_dir, references_dir, subsections_dir,
                   content_dir, final_dir, ctl, provenance>>

OutlineDone ==
    /\ pc = "outline" /\ phase = "loop" /\ paper = NoPaper /\ todo = {}
    /\ pc' = NextStage(pc)
    /\ phase' = "init"
    /\ UNCHANGED <<disk, prompt, todo, loopvars, hist>>

(***************************************************************************)
(* Abstract stage (abstract.py).                                           *)
(***************************************************************************)
\* The line test of _read_subject_from_test: not blank, not "Subjects:", and not
\* starting with 'References:', 'Number:', 'Title:' or 'Abstract:'.
IsSubjectLine(line) == line.tag = "" /\ line.text # ""

\* AbstractAgent._read_subject_from_test: the first such line, "" when there is none
\* or the file cannot be read
ReadSubjectFromTest(dir, p) ==
    IF p \notin DOMAIN dir THEN ""
    ELSE LET lines == dir[p]
         IN  IF \E i \in 1..Len(lines) : IsSubjectLine(lines[i])
             THEN lines[CHOOSE i \in 1..Len(lines) :
                            /\ IsSubjectLine(lines[i])
                            /\ \A j \in 1..(i-1) : ~IsSubjectLine(lines[j])].text
             ELSE ""

\* AbstractAgent._read_outline_from_file
ReadOutline(dir, p) ==
    IF p \notin DOMAIN dir THEN <<>> ELSE dir[p].sections

AbstractMinWords == 200
AbstractMaxWords == 500

\* A verifier that forgets the upper bound of the word count.
VerifyAbstractFormat_NoMaximum(abstract) ==
    /\ StartsWith(abstract, AbstractOpen)
    /\ EndsWith(abstract, AbstractClose)
    /\ AbstractMinWords
           <= WordCount(Strip(ReSubTags(abstract, AbstractOpen, AbstractClose)))

\* AbstractAgent._verify_abstract_format
VerifyAbstractFormat(abstract) ==
    /\ StartsWith(abstract, AbstractOpen)
    /\ EndsWith(abstract, AbstractClose)
    /\ LET content == Strip(ReSubTags(abstract, AbstractOpen, AbstractClose))
           word_count == WordCount(content)
       IN  AbstractMinWords <= word_count /\ word_count <= AbstractMaxWords

AbstractCorrection ==
    <<"Please format your response properly:\n1. Wrap the abstract in <abstract> tags\n2. Ensure length is between 200-500 words\n3. Write as a single paragraph\n4. Include only the abstract content">>

\* A save that stores the bare abstract instead of the response.
AbstractDoc_StripsMarkers(paper_id, abstract) ==
    [paper_id |-> paper_id,
     abstract |-> Strip(ReSubTags(abstract, AbstractOpen, AbstractClose))]

\* AbstractAgent._save_abstract
AbstractDoc(paper_id, abstract) == [paper_id |-> paper_id, abstract |-> abstract]

\* The step after a stage whose constructor raised: generate_survey re-raises.

\* AbstractAgent.__init__: _load_prompt raises when the key is missing
AbstractStart ==
    /\ pc = "abstract" /\ phase = "init"
    /\ IF "abstract_prompt" \in prompts
       THEN /\ phase' = "loop"
            /\ prompt' = "abstract_prompt"
            /\ todo' = DOMAIN title_dir
            /\ pc' = pc
       ELSE /\ pc' = Aborted
            /\ UNCHANGED <<phase, prompt, todo>>
    /\ UNCHANGED <<disk, loopvars, hist>>

\* One iteration of process_papers up to the first model call.
AbstractPaper(p) ==
    /\ pc = "abstract" /\ phase = "loop" /\ paper = NoPaper
    /\ p \in todo
    /\ todo' = todo \ {p}
    /\ LET subject == ReadSubjectFromTest(test_dir, p)
           title == ReadTitle(title_dir, p)
           outline == ReadOutline(outline_dir, p)
       IN  IF subject # "" /\ title # <<>> /\ outline # <<>>
           THEN /\ paper' = p
                /\ paper_info' = [NoInfo EXCEPT !.subject = subject, !.title = title,
                                                !.outline = outline]
                /\ messages' = <<UserMessage(FormatPrompt(prompt,
                                     [subject |-> subject, title |-> title,
                                      outline |-> JoinLines(outline)]))>>
           ELSE UNCHANGED <<paper, paper_info, messages>>
    /\ UNCHANGED <<disk, pc, phase, prompt, sec_i, sub_i, retry_count, acc, acc2,
                   ncalls, hist>>

\* One turn of the while True loop of _get_abstract_from_gpt: the model answers r.
\* An accepted answer is returned to process_papers, which saves it.
AbstractCall(r) ==
    /\ pc = "abstract" /\ phase = "loop" /\ paper # NoPaper
    /\ LET abstract == Strip(r)
       IN  IF VerifyAbstractFormat(abstract)
           THEN /\ abstract_dir' =
                       IF abstract # <<>>
                       THEN Put(abstract_dir, paper, AbstractDoc(paper, abstract))
                       ELSE abstract_dir
                /\ last' = [NoLast EXCEPT !.stage = "abstract", !.paper = paper,
                                          !.raw = r, !.response = abstract,
                                          !.ncalls = ncalls + 1, !.accepted = TRUE]
                /\ IdleLoop
           ELSE /\ ncalls + 1 < MaxAttempts
                /\ messages' = ExtendMessages(messages, abstract, AbstractCorrection)
                /\ ncalls' = ncalls + 1
                /\ UNCHANGED <<abstract_dir, last, paper, paper_info, sec_i, sub_i,
                               retry_count, acc, acc2>>
    /\ order_log' = LogStage("abstract")
    /\ UNCHANGED <<inputs, title_dir, outline_dir, references_dir, subsections_dir,
                   content_dir, final_dir, ctl, provenance>>

\* The model call raises: _get_abstract_from_gpt returns "" and nothing is saved.
AbstractRaise ==
    /\ pc = "abstract" /\ phase = "loop" /\ paper # NoPaper
    /\ last' = [NoLast EXCEPT !.stage = "abstract", !.paper = paper,
                              !.ncalls = ncalls + 1, !.raised = TRUE]
    /\ IdleLoop
    /\ order_log' = LogStage("abstract")
    /\ UNCHANGED <<disk, ctl, provenance>>

AbstractDone ==
    /\ pc = "abstract" /\ phase = "loop" /\ paper = NoPaper /\ todo = {}
    /\ pc' = NextStage(pc)
    /\ phase' = "init"
    /\ UNCHANGED <<disk, prompt, todo, loopvars, hist>>

(***************************************************************************)
(* Reference-Selection stage (referenceselection.py).                      *)
(***************************************************************************)
\* The loop over the lines of the text file in _read_paper_info: the last untagged
\* line of the subjects part, the "Title:" lines of the references part.
RECURSIVE RefsExtractContent(_, _, _, _)
RefsExtractContent(lines, subject, references, current_section) ==
    IF lines = <<>> THEN [subject |-> subject, references |-> references]
    ELSE LET line == Head(lines)
             rest == Tail(lines)
         IN  IF line = Ln("Subjects:", "")
             THEN RefsExtractContent(rest, subject, references, "subjects")
             ELSE IF line = Ln("References:", "")
             THEN RefsExtractContent(rest, subject, references, "references")
             ELSE IF line # BlankLine /\ current_section = "subjects"
             THEN RefsExtractContent(rest, IF line.tag = "" THEN line.text ELSE subject,
                                     references, current_section)
             ELSE IF line # BlankLine /\ current_section = "references"
                         /\ line.tag = "Title:"
             THEN RefsExtractContent(rest, subject, Append(references, line.text),
                                     current_section)
             ELSE RefsExtractContent(rest, subject, references, current_section)

\* The outline cleaning of the readers: lines that start with <outline> or </outline>
\* and empty lines are dropped.
CleanedSections(sections) ==
    SelectSeq(sections, LAMBDA x : ~(StartsWith(x, OutlineOpen)
                                     \/ StartsWith(x, OutlineClose) \/ x = <<>>))

\* ReferenceSelectionAgent._read_paper_info: {} (ok = FALSE) when a file is missing
RefsReadPaperInfo(p) ==
    IF /\ p \in DOMAIN test_dir
       /\ p \in DOMAIN title_dir
       /\ p \in DOMAIN outline_dir
    THEN LET ref_data == RefsExtractContent(test_dir[p], "", <<>>, "")
         IN  [ok |-> TRUE,
              info |-> [NoInfo EXCEPT !.subject = ref_data.subject,
                                      !.title = ReadTitle(title_dir, p),
                                      !.outline = CleanedSections(outline_dir[p].sections),
                                      !.references = ref_data.references]]
    ELSE [ok |-> FALSE, info |-> NoInfo]

\* refs[6:-7].strip() and its non-blank lines, stripped
RefsLines(refs) == NonBlankLines(Strip(Slice(refs, Len(RefsOpen), Len(RefsClose))))

\* ReferenceSelectionAgent._verify_refs_format
VerifyRefsFormat(refs) ==
    /\ StartsWith(refs, RefsOpen)
    /\ EndsWith(refs, RefsClose)
    /\ \A i \in 1..Len(RefsLines(refs)) :
           StartsWith(RefsLines(refs)[i], <<"*">>) /\ HasCitation(RefsLines(refs)[i])

RefsCorrection ==
    <<"Please format your response properly. Each reference should:\n1. Be wrapped in <refs> tags\n2. Start with '*'\n3. Include the original reference number in square brackets\n4. Be on a new line">>

\* The next section of the outline at or after index from, reserved or not.
NextRefsSection_AnyHeading(info, from) ==
    IF from <= Len(info.outline) THEN from ELSE 0

\* The next section of the outline, at or after index from, that is not a reserved
\* heading.
NextRefsSection(info, from) ==
    LET S == {i \in from..Len(info.outline) : info.outline[i] \notin Reserved}
    IN  IF S = {} THEN 0 ELSE Least(S)

RefsPrompt(info, i) ==
    UserMessage(FormatPrompt(prompt,
        [subject |-> info.subject, title |-> info.title,
         outline |-> JoinLines(info.outline), section |-> info.outline[i],
         references |-> info.references]))

\* process_papers from index from of the section loop, for paper p with what it read
\* and the dict built so far: up to the next model call, or to the save (_save_refs
\* dumps the dict itself).
RefsContinue(p, info, section_refs, from) ==
    LET i == NextRefsSection(info, from)
    IN  IF i = 0
        THEN /\ references_dir' = Put(references_dir, p, section_refs)
             /\ IdleLoop
        ELSE /\ paper' = p
             /\ paper_info' = info
             /\ sec_i' = i
             /\ acc' = section_refs
             /\ messages' = <<RefsPrompt(info, i)>>
             /\ ncalls' = 0
             /\ UNCHANGED <<references_dir, sub_i, retry_count, acc2>>

\* ReferenceSelectionAgent.__init__: _load_prompt raises when the key is missing
RefsStart ==
    /\ pc = "references" /\ phase = "init"
    /\ IF "reference_selection_prompt" \in prompts
       THEN /\ phase' = "loop"
            /\ prompt' = "reference_selection_prompt"
            /\ todo' = DOMAIN title_dir
            /\ pc' = pc
       ELSE /\ pc' = Aborted
            /\ UNCHANGED <<phase, prompt, todo>>
    /\ UNCHANGED <<disk, loopvars, hist>>

\* One iteration of process_papers up to the first model call (or, when the outline
\* has no section to select for, to the save).
RefsPaper(p) ==
    /\ pc = "references" /\ phase = "loop" /\ paper = NoPaper
    /\ p \in todo
    /\ todo' = todo \ {p}
    /\ LET read == RefsReadPaperInfo(p)
       IN  IF read.ok
           THEN /\ RefsContinue(p, read.info, <<>>, 1)
                /\ order_log' = IF NextRefsSection(read.info, 1) = 0
                                THEN LogStage("references") ELSE order_log
           ELSE UNCHANGED <<references_dir, loopvars, order_log>>
    /\ UNCHANGED <<inputs, title_dir, outline_dir, abstract_dir, subsections_dir,
                   content_dir, final_dir, pc, phase, prompt, last, provenance>>

\* A stage that stops at the third rejected response and emits what it extracts from
\* it.
RefsCall_Bounded(r) ==
    /\ pc = "references" /\ phase = "loop" /\ paper # NoPaper
    /\ LET refs == Strip(r)
           section == paper_info.outline[sec_i]
       IN  IF VerifyRefsFormat(refs) \/ ncalls + 1 >= 3
           THEN /\ last' = [NoLast EXCEPT !.stage = "references", !.paper = paper,
                                          !.section = section,
                                          !.raw = r, !.response = refs,
                                          !.ncalls = ncalls + 1,
                                          !.accepted = VerifyRefsFormat(refs)]
                /\ RefsContinue(paper, paper_info,
                       IF refs # <<>> THEN DictSet(acc, section, RefsLines(refs)) ELSE acc,
                       sec_i + 1)
           ELSE /\ messages' = ExtendMessages(messages, refs, RefsCorrection)
                /\ ncalls' = ncalls + 1
                /\ UNCHANGED <<references_dir, last, paper, paper_info, sec_i, sub_i,
                               retry_count, acc, acc2>>
    /\ order_log' = LogStage("references")
    /\ UNCHANGED <<inputs, title_dir, outline_dir, abstract_dir, subsections_dir,
                   content_dir, final_dir, ctl, provenance>>

\* One turn of the while True loop of _get_refs_for_section: the model answers r.  An
\* accepted answer is returned; `if refs:` stores its lines under the section.
RefsCall(r) ==
    /\ pc = "references" /\ phase = "loop" /\ paper # NoPaper
    /\ LET refs == Strip(r)
           section == paper_info.outline[sec_i]
       IN  IF VerifyRefsFormat(refs)
           THEN /\ last' = [NoLast EXCEPT !.stage = "references", !.paper = paper,
                                          !.section = section,
                                          !.raw = r, !.response = refs,
                                          !.ncalls = ncalls + 1, !.accepted = TRUE]
                /\ RefsContinue(paper, paper_info,
                       IF refs # <<>> THEN DictSet(acc, section, RefsLines(refs)) ELSE acc,
                       sec_i + 1)
           ELSE /\ ncalls + 1 < MaxRefsAttempts
                /\ messages' = ExtendMessages(messages, refs, RefsCorrection)
                /\ ncalls' = ncalls + 1
                /\ UNCHANGED <<references_dir, last, paper, paper_info, sec_i, sub_i,
                               retry_count, acc, acc2>>
    /\ order_log' = LogStage("references")
    /\ UNCHANGED <<inputs, title_dir, outline_dir, abstract_dir, subsections_dir,
                   content_dir, final_dir, ctl, provenance>>

\* The model call raises: "" is returned, the section gets no entry, the loop goes on.
RefsRaise ==
    /\ pc = "references" /\ phase = "loop" /\ paper # NoPaper
    /\ last' = [NoLast EXCEPT !.stage = "references", !.paper = paper,
                              !.section = paper_info.outline[sec_i],
                              !.ncalls = ncalls + 1, !.raised = TRUE]
    /\ RefsContinue(paper, paper_info, acc, sec_i + 1)
    /\ order_log' = LogStage("references")
    /\ UNCHANGED <<inputs, title_dir, outline_dir, abstract_dir, subsections_dir,
                   content_dir, final_dir, ctl, provenance>>

RefsDone ==
    /\ pc = "references" /\ phase = "loop" /\ paper = NoPaper /\ todo = {}
    /\ pc' = NextStage(pc)
    /\ phase' = "init"
    /\ UNCHANGED <<disk, prompt, todo, loopvars, hist>>

(***************************************************************************)
(* Subsection stage (subsectionagent.py).                                  *)
(***************************************************************************)
HasSubjectLine(lines) == \E i \in 1..Len(lines) : IsSubjectLine(lines[i])

\* SubsectionAgent._read_paper_info: {} (ok = FALSE) when a file is missing, and also
\* when the text file has no subject line (the local `subject` is then unbound).
SubsectionReadPaperInfo(p) ==
    IF /\ p \in DOMAIN test_dir /\ HasSubjectLine(test_dir[p])
       /\ p \in DOMAIN title_dir
       /\ p \in DOMAIN outline_dir
       /\ p \in DOMAIN references_dir
    THEN [ok |-> TRUE,
          info |-> [NoInfo EXCEPT !.subject = ReadSubjectFromTest(test_dir, p),
                                  !.title = ReadTitle(title_dir, p),
                                  !.outline = CleanedSections(outline_dir[p].sections),
                                  !.section_refs = references_dir[p]]]
    ELSE [ok |-> FALSE, info |-> NoInfo]

\* paper_info['section_refs'].get(section, [])
SectionRefs(info, section) ==
    IF DictHas(info.section_refs, section) THEN DictGet(info.section_refs, section)
    ELSE <<>>

SubsectionsSliceStart == 13
SubsectionsSliceEnd == 14
MinSubsections == 3
MaxSubsections == 5
Bullet == <<"*", " ">>

\* subsections[13:-14].strip() and its non-blank lines, stripped
SubsectionLines(subsections) ==
    NonBlankLines(Strip(Slice(subsections, SubsectionsSliceStart, SubsectionsSliceEnd)))

\* A verifier that forgets the count of subsections.
VerifySubsectionsFormat_NoCount(subsections) ==
    /\ StartsWith(subsections, SubsectionsOpen)
    /\ EndsWith(subsections, SubsectionsClose)
    /\ \A i \in 1..Len(SubsectionLines(subsections)) :
           StartsWith(SubsectionLines(subsections)[i], Bullet)

\* SubsectionAgent._verify_subsections_format
VerifySubsectionsFormat(subsections) ==
    /\ StartsWith(subsections, SubsectionsOpen)
    /\ EndsWith(subsections, SubsectionsClose)
    /\ LET lines == SubsectionLines(subsections)
       IN  /\ MinSubsections <= Len(lines) /\ Len(lines) <= MaxSubsections
           /\ \A i \in 1..Len(lines) : StartsWith(lines[i], Bullet)

\* process_papers: [line.strip()[2:].strip() for line in content.split('\n') if line.strip()]
SubsectionList(subsections) ==
    LET lines == SubsectionLines(subsections)
    IN  [i \in 1..Len(lines) |-> Strip(SliceFrom(lines[i], Len(Bullet)))]

SubsectionCorrection ==
    <<"Please format your response properly:\n1. Wrap subsections in <subsections> tags\n2. Include 3-5 subsections\n3. Start each subsection with '* '\n4. Put each subsection on a new line">>

\* SubsectionAgent._save_subsections
SubsectionsDoc(paper_id, section_subsections) ==
    [paper_id |-> paper_id, sections |-> section_subsections]

\* A stage that builds subsections for a section whatever its selected references.
NextSubsectionSection_IgnoresRefs(info, from) ==
    LET S == {i \in from..Len(info.outline) : info.outline[i] \notin Reserved}
    IN  IF S = {} THEN 0 ELSE Least(S)

\* The next section of the outline, at or after index from, for which process_papers
\* calls the model: not a reserved heading and with a non-empty reference list.
NextSubsectionSection(info, from) ==
    LET S == {i \in from..Len(info.outline) :
                  /\ info.outline[i] \notin Reserved
                  /\ SectionRefs(info, info.outline[i]) # <<>>}
    IN  IF S = {} THEN 0 ELSE Least(S)

SubsectionPrompt(info, i) ==
    UserMessage(FormatPrompt(prompt,
        [subject |-> info.subject, title |-> info.title,
         outline |-> JoinLines(info.outline), section |-> info.outline[i],
         section_refs |-> JoinLines(SectionRefs(info, info.outline[i]))]))

\* process_papers from index from of the section loop, for paper p with what it read
\* and the dict built so far: up to the next model call, or to the save.
SubsectionContinue(p, info, section_subsections, from) ==
    LET i == NextSubsectionSection(info, from)
    IN  IF i = 0
        THEN /\ subsections_dir' =
                    Put(subsections_dir, p, SubsectionsDoc(p, section_subsections))
             /\ IdleLoop
        ELSE /\ paper' = p
             /\ paper_info' = info
             /\ sec_i' = i
             /\ acc' = section_subsections
             /\ messages' = <<SubsectionPrompt(info, i)>>
             /\ ncalls' = 0
             /\ UNCHANGED <<subsections_dir, sub_i, retry_count, acc2>>

\* SubsectionAgent.__init__: _load_prompt raises when the key is missing
SubsectionStart ==
    /\ pc = "subsections" /\ phase = "init"
    /\ IF "subsection_prompt" \in prompts
       THEN /\ phase' = "loop"
            /\ prompt' = "subsection_prompt"
            /\ todo' = DOMAIN title_dir
            /\ pc' = pc
       ELSE /\ pc' = Aborted
            /\ UNCHANGED <<phase, prompt, todo>>
    /\ UNCHANGED <<disk, loopvars, hist>>

\* One iteration of process_papers up to the first model call (or, when no section
\* needs one, to the save).
SubsectionPaper(p) ==
    /\ pc = "subsections" /\ phase = "loop" /\ paper = NoPaper
    /\ p \in todo
    /\ todo' = todo \ {p}
    /\ LET read == SubsectionReadPaperInfo(p)
       IN  IF read.ok
           THEN /\ SubsectionContinue(p, read.info, <<>>, 1)
                /\ order_log' = IF NextSubsectionSection(read.info, 1) = 0
                                THEN LogStage("subsections") ELSE order_log
           ELSE UNCHANGED <<subsections_dir, loopvars, order_log>>
    /\ UNCHANGED <<inputs, title_dir, outline_dir, abstract_dir, references_dir,
                   content_dir, final_dir, pc, phase, prompt, last, provenance>>

\* One turn of the while True loop of _get_subsections_for_section: the model answers
\* r.  An accepted answer is returned, its list is stored under the section and the
\* section loop goes on.
SubsectionCall(r) ==
    /\ pc = "subsections" /\ phase = "loop" /\ paper # NoPaper
    /\ LET subsections == Strip(r)
           section == paper_info.outline[sec_i]
       IN  IF VerifySubsectionsFormat(subsections)
           THEN /\ last' = [NoLast EXCEPT !.stage = "subsections", !.paper = paper,
                                          !.section = section,
                                          !.raw = r, !.response = subsections,
                                          !.ncalls = ncalls + 1, !.accepted = TRUE]
                /\ SubsectionContinue(paper, paper_info,
                       IF subsections # <<>>
                       THEN DictSet(acc, section, SubsectionList(subsections))
                       ELSE acc,
                       sec_i + 1)
           ELSE /\ ncalls + 1 < MaxAttempts
                /\ messages' = ExtendMessages(messages, subsections, SubsectionCorrection)
                /\ ncalls' = ncalls + 1
                /\ UNCHANGED <<subsections_dir, last, paper, paper_info, sec_i, sub_i,
                               retry_count, acc, acc2>>
    /\ order_log' = LogStage("subsections")
    /\ UNCHANGED <<inputs, title_dir, outline_dir, abstract_dir, references_dir,
                   content_dir, final_dir, ctl, provenance>>

\* The model call raises: "" is returned, the section gets no entry, the loop goes on.
SubsectionRaise ==
    /\ pc = "subsections" /\ phase = "loop" /\ paper # NoPaper
    /\ last' = [NoLast EXCEPT !.stage = "subsections", !.paper = paper,
                              !.section = paper_info.outline[sec_i],
                              !.ncalls = ncalls + 1, !.raised = TRUE]
    /\ SubsectionContinue(paper, paper_info, acc, sec_i + 1)
    /\ order_log' = LogStage("subsections")
    /\ UNCHANGED <<inputs, title_dir, outline_dir, abstract_dir, references_dir,
                   content_dir, final_dir, ctl, provenance>>

SubsectionDone ==
    /\ pc = "subsections" /\ phase = "loop" /\ paper = NoPaper /\ todo = {}
    /\ pc' = NextStage(pc)
    /\ phase' = "init"
    /\ UNCHANGED <<disk, prompt, todo, loopvars, hist>>

(***************************************************************************)
(* Content stage (content.py).                                             *)
(***************************************************************************)
\* A loop that allows one more attempt.
max_retries_OneMore == 3 + 1

\* self.max_retries
max_retries == 3
ContentMinParagraphs == 3
ContentMinWords == 500
ParagraphBreak == <<"\n", "\n">>

\* ContentAgent._read_paper_info: {} (ok = FALSE) when one of the five files is
\* missing; the key 'subject' is set only when the text file has a subject line.
ContentReadPaperInfo(p) ==
    IF /\ p \in DOMAIN test_dir
       /\ p \in DOMAIN title_dir
       /\ p \in DOMAIN outline_dir
       /\ p \in DOMAIN references_dir
       /\ p \in DOMAIN subsections_dir
    THEN [ok |-> TRUE,
          has_subject |-> HasSubjectLine(test_dir[p]),
          info |-> [NoInfo EXCEPT !.subject = ReadSubjectFromTest(test_dir, p),
                                  !.title = ReadTitle(title_dir, p),
                                  !.outline = CleanedSections(outline_dir[p].sections),
                                  !.section_refs = references_dir[p],
                                  !.subsections = subsections_dir[p].sections]]
    ELSE [ok |-> FALSE, has_subject |-> FALSE, info |-> NoInfo]

\* content[9:-10].strip()
ContentBody(content) == Strip(Slice(content, Len(ContentOpen), Len(ContentClose)))

\* len([p.strip() for p in text.split('\n\n') if p.strip()])
ParagraphCount(text) == Len(StripNonBlank(Split(text, ParagraphBreak)))

\* A verifier that forgets the word count.
VerifyContentFormat_NoWordCount(content) ==
    /\ StartsWith(content, ContentOpen)
    /\ EndsWith(content, ContentClose)
    /\ ParagraphCount(ContentBody(content)) >= ContentMinParagraphs
    /\ HasCitation(ContentBody(content))

\* ContentAgent._verify_content_format
VerifyContentFormat(content) ==
    /\ StartsWith(content, ContentOpen)
    /\ EndsWith(content, ContentClose)
    /\ LET text == ContentBody(content)
       IN  /\ ParagraphCount(text) >= ContentMinParagraphs
           /\ WordCount(text) >= ContentMinWords
           /\ HasCitation(text)

ContentCorrection ==
    <<"Please format your response properly:\n1. Wrap content in <content> tags\n2. Write at least 3 paragraphs\n3. Include at least 500 words\n4. Use proper citations [n]\n5. Don't include any headings\n6. Maintain academic style">>

\* A bounded loop that gives up with nothing when its attempts are used up.
ContentExhausted_GivesUp(content) == <<>>

\* _get_content after the loop: "Maximum retries reached, using last response"
ContentExhausted(content) == content

\* ContentAgent._save_content
ContentDoc(paper_id, content_data) == [paper_id |-> paper_id, sections |-> content_data]

NoPosition == <<0, 0>>

\* The positions (i, j) of the double loop of process_papers: item i of the
\* subsections dict is not a reserved heading and j indexes its list.
ContentPositions(info) ==
    UNION { {<<i, j>> : j \in 1..Len(info.subsections[i].value)} :
                i \in {k \in 1..Len(info.subsections) :
                           info.subsections[k].key \notin Reserved} }

\* The first position at or after (i, j), in the order of the double loop.
NextContentPosition(info, i, j) ==
    LET S == {q \in ContentPositions(info) : q[1] > i \/ (q[1] = i /\ q[2] >= j)}
    IN  IF S = {} THEN NoPosition
        ELSE CHOOSE q \in S : \A r \in S : q[1] < r[1] \/ (q[1] = r[1] /\ q[2] <= r[2])

\* if section_content: content_data[section] = section_content
FlushSection(info, content_data, i, section_content) ==
    IF i = 0 \/ section_content = <<>> THEN content_data
    ELSE DictSet(content_data, info.subsections[i].key, section_content)

ContentPrompt(info, q) ==
    UserMessage(FormatPrompt(prompt,
        [subject |-> info.subject, title |-> info.title,
         outline |-> JoinLines(info.outline),
         section_heading |-> info.subsections[q[1]].key,
         subsec_heading |-> info.subsections[q[1]].value[q[2]],
         section_refs |-> JoinLines(SectionRefs(info, info.subsections[q[1]].key))]))

\* process_papers from position (i, j) of the double loop, for paper p, with the
\* content_data and the section_content built so far for section cur: up to the next
\* model call, or to the save.
ContentContinue(p, info, content_data, section_content, cur, i, j) ==
    LET q == NextContentPosition(info, i, j)
    IN  IF q = NoPosition
        THEN /\ content_dir' =
                    Put(content_dir, p,
                        ContentDoc(p, FlushSection(info, content_data, cur, section_content)))
             /\ IdleLoop
        ELSE /\ paper' = p
             /\ paper_info' = info
             /\ sec_i' = q[1]
             /\ sub_i' = q[2]
             /\ acc' = IF q[1] = cur THEN content_data
                       ELSE FlushSection(info, content_data, cur, section_content)
             /\ acc2' = IF q[1] = cur THEN section_content ELSE <<>>
             /\ messages' = <<ContentPrompt(info, q)>>
             /\ retry_count' = 0
             /\ ncalls' = 0
             /\ UNCHANGED content_dir

\* _get_content has returned `returned` for the subsection at (sec_i, sub_i):
\* `if content:` stores its body, and the double loop goes on.
ContentReturns(returned, response, accepted, raised) ==
    LET section == paper_info.subsections[sec_i].key
        subsection == paper_info.subsections[sec_i].value[sub_i]
        outcome == [stage |-> "content", paper |-> paper, section |-> section,
                    subsection |-> subsection, raw |-> <<>>, response |-> response,
                    ncalls |-> ncalls + 1, accepted |-> accepted, raised |-> raised]
    IN  /\ last' = outcome
        /\ provenance' = provenance \cup {outcome}
        /\ ContentContinue(paper, paper_info, acc,
               IF returned # <<>> THEN DictSet(acc2, subsection, ContentBody(returned))
               ELSE acc2,
               sec_i, sec_i, sub_i + 1)

\* ContentAgent.__init__: _load_prompt raises when the key is missing
ContentStart ==
    /\ pc = "content" /\ phase = "init"
    /\ IF "content_prompt" \in prompts
       THEN /\ phase' = "loop"
            /\ prompt' = "content_prompt"
            /\ todo' = DOMAIN title_dir
            /\ pc' = pc
       ELSE /\ pc' = Aborted
            /\ UNCHANGED <<phase, prompt, todo>>
    /\ UNCHANGED <<disk, loopvars, hist>>

\* One iteration of process_papers up to the first model call.  Without a subject
\* every _get_content fails on paper_info['subject'] before any call and returns "",
\* so an empty content_data is saved.
ContentPaper(p) ==
    /\ pc = "content" /\ phase = "loop" /\ paper = NoPaper
    /\ p \in todo
    /\ todo' = todo \ {p}
    /\ LET read == ContentReadPaperInfo(p)
       IN  IF ~read.ok
           THEN UNCHANGED <<content_dir, loopvars, order_log>>
           ELSE IF ~read.has_subject \/ NextContentPosition(read.info, 1, 1) = NoPosition
           THEN /\ content_dir' = Put(content_dir, p, ContentDoc(p, <<>>))
                /\ order_log' = LogStage("content")
                /\ UNCHANGED loopvars
           ELSE /\ ContentContinue(p, read.info, <<>>, <<>>, 0, 1, 1)
                /\ UNCHANGED order_log
    /\ UNCHANGED <<inputs, title_dir, outline_dir, abstract_dir, references_dir,
                   subsections_dir, final_dir, pc, phase, prompt, last, provenance>>

\* One turn of `while retry_count < self.max_retries`: the model answers r.
ContentCall(r) ==
    /\ pc = "content" /\ phase = "loop" /\ paper # NoPaper
    /\ retry_count < max_retries
    /\ LET content == Strip(r)
       IN  IF VerifyContentFormat(content)
           THEN ContentReturns(content, content, TRUE, FALSE)
           ELSE IF retry_count + 1 < max_retries
           THEN /\ messages' = ExtendMessages(messages, content, ContentCorrection)
                /\ retry_count' = retry_count + 1
                /\ ncalls' = ncalls + 1
                /\ UNCHANGED <<content_dir, last, provenance, paper, paper_info, sec_i,
                               sub_i, acc, acc2>>
           ELSE ContentReturns(ContentExhausted(content), content, FALSE, FALSE)
    /\ order_log' = LogStage("content")
    /\ UNCHANGED <<inputs, title_dir, outline_dir, abstract_dir, references_dir,
                   subsections_dir, final_dir, ctl>>

\* The model call raises: "" is returned and the subsection gets no body.
ContentRaise ==
    /\ pc = "content" /\ phase = "loop" /\ paper # NoPaper
    /\ ContentReturns(<<>>, <<>>, FALSE, TRUE)
    /\ order_log' = LogStage("content")
    /\ UNCHANGED <<inputs, title_dir, outline_dir, abstract_dir, references_dir,
                   subsections_dir, final_dir, ctl>>

\* A return that clears the abstract directory on its way out.
ContentDone_DropsAbstracts ==
    /\ pc = "content" /\ phase = "loop" /\ paper = NoPaper /\ todo = {}
    /\ pc' = NextStage(pc)
    /\ phase' = "init"
    /\ abstract_dir' = NoFiles
    /\ UNCHANGED <<inputs, title_dir, outline_dir, references_dir, subsections_dir,
                   content_dir, final_dir, prompt, todo, loopvars, hist>>

ContentDone ==
    /\ pc = "content" /\ phase = "loop" /\ paper = NoPaper /\ todo = {}
    /\ pc' = NextStage(pc)
    /\ phase' = "init"
    /\ UNCHANGED <<disk, prompt, todo, loopvars, hist>>

(***************************************************************************)
(* Final Assembler (outputxml.py).  The document is the list of its        *)
(* elements, in order, between <Literature> and </Literature>.             *)
(***************************************************************************)
\* A reader that fills in a placeholder when the file is missing.
ReadAbstract_Placeholder(p) ==
    IF p \notin DOMAIN abstract_dir THEN <<"N", "/", "A">>
    ELSE Strip(ReSubTags(abstract_dir[p].abstract, AbstractOpen, AbstractClose))

\* XMLPaperGenerator._read_abstract
ReadAbstract(p) ==
    IF p \notin DOMAIN abstract_dir THEN <<>>
    ELSE Strip(ReSubTags(abstract_dir[p].abstract, AbstractOpen, AbstractClose))

\* XMLPaperGenerator._read_sections: only the marker lines are dropped
ReadSections(p) ==
    IF p \notin DOMAIN outline_dir THEN <<>>
    ELSE SelectSeq(outline_dir[p].sections,
                   LAMBDA x : ~(StartsWith(x, OutlineOpen) \/ StartsWith(x, OutlineClose)))

\* XMLPaperGenerator._read_subsections
ReadSubsections(p) ==
    IF p \notin DOMAIN subsections_dir THEN <<>> ELSE subsections_dir[p].sections

\* XMLPaperGenerator._read_content
ReadContent(p) ==
    IF p \notin DOMAIN content_dir THEN <<>> ELSE content_dir[p].sections

\* A reader that gives the bibliography only to a paper with selected references.
ReadReferences_OfSelected(p) ==
    IF p \notin DOMAIN train_dir \/ p \notin DOMAIN references_dir THEN <<>>
    ELSE LET rec == train_dir[p]
         IN  [n \in 1..Len(rec.reference) |->
                 [ref |-> rec.reference[n],
                  abstract |-> ReferenceAbstract(rec.reference_content, n)]]

\* XMLPaperGenerator._read_references: the references of the raw record, each with
\* its abstract when there is a non-empty one; "" (no item) when there is no record.
ReadReferences(p) ==
    IF p \notin DOMAIN train_dir THEN <<>>
    ELSE LET rec == train_dir[p]
         IN  [n \in 1..Len(rec.reference) |->
                 [ref |-> rec.reference[n],
                  abstract |-> ReferenceAbstract(rec.reference_content, n)]]

Element(kind, n, m, text) == [kind |-> kind, section |-> n, subsection |-> m, text |-> text]

RECURSIVE Flatten(_)
Flatten(seqs) == IF seqs = <<>> THEN <<>> ELSE Head(seqs) \o Flatten(Tail(seqs))

\* A section whose every subsection gets a text element, empty when the ContentMap
\* does not have the subsection.
SectionElements_AlwaysText(n, section, subsections, content) ==
    <<Element("Section_title", n, 0, section)>>
        \o (IF DictHas(subsections, section)
            THEN LET subs == DictGet(subsections, section)
                 IN  Flatten([m \in 1..Len(subs) |->
                         <<Element("Subsection_title", n, m, subs[m]),
                           Element("Subsection_text", n, m,
                               IF /\ DictHas(content, section)
                                  /\ DictHas(DictGet(content, section), subs[m])
                               THEN DictGet(DictGet(content, section), subs[m])
                               ELSE <<>>)>>])
            ELSE <<>>)

\* The elements of one section of _generate_xml: its title, and for each of its
\* subsections the title and, when the ContentMap has it, the text.
SectionElements(n, section, subsections, content) ==
    <<Element("Section_title", n, 0, section)>>
        \o (IF DictHas(subsections, section)
            THEN LET subs == DictGet(subsections, section)
                 IN  Flatten([m \in 1..Len(subs) |->
                         <<Element("Subsection_title", n, m, subs[m])>>
                             \o (IF /\ DictHas(content, section)
                                    /\ DictHas(DictGet(content, section), subs[m])
                                 THEN <<Element("Subsection_text", n, m,
                                            DictGet(DictGet(content, section), subs[m]))>>
                                 ELSE <<>>)])
            ELSE <<>>)

\* An assembler whose section counter also advances on the reserved headings.
GenerateXml_NumbersReserved(p) ==
    LET sections == ReadSections(p)
    IN  <<Element("Title", 0, 0, ReadTitle(title_dir, p)),
          Element("Abstract", 0, 0, ReadAbstract(p))>>
            \o Flatten([n \in 1..Len(sections) |->
                   IF sections[n] \in Reserved THEN <<>>
                   ELSE SectionElements(n, sections[n], ReadSubsections(p),
                                        ReadContent(p))])
            \o <<Element("References", 0, 0, ReadReferences(p))>>

\* XMLPaperGenerator._generate_xml
GenerateXml(p) ==
    LET numbered == SelectSeq(ReadSections(p), LAMBDA x : x \notin Reserved)
    IN  <<Element("Title", 0, 0, ReadTitle(title_dir, p)),
          Element("Abstract", 0, 0, ReadAbstract(p))>>
            \o Flatten([n \in 1..Len(numbered) |->
                   SectionElements(n, numbered[n], ReadSubsections(p), ReadContent(p))])
            \o <<Element("References", 0, 0, ReadReferences(p))>>

\* XMLPaperGenerator.__init__
FinalStart ==
    /\ pc = "final" /\ phase = "init"
    /\ phase' = "loop"
    /\ prompt' = ""
    /\ todo' = DOMAIN title_dir
    /\ UNCHANGED <<disk, pc, loopvars, hist>>

\* An iteration that opens the output file for appending instead of writing.
FinalPaper_Appends(p) ==
    /\ pc = "final" /\ phase = "loop"
    /\ p \in todo
    /\ todo' = todo \ {p}
    /\ final_dir' = Put(final_dir, p,
                        IF p \in DOMAIN final_dir /\ Len(final_dir[p]) < 30
                        THEN final_dir[p] \o GenerateXml(p) ELSE GenerateXml(p))
    /\ order_log' = LogStage("final")
    /\ UNCHANGED <<inputs, title_dir, outline_dir, abstract_dir, references_dir,
                   subsections_dir, content_dir, pc, phase, prompt, loopvars,
                   last, provenance>>

\* One iteration of process_papers: _generate_xml and _save_xml
FinalPaper(p) ==
    /\ pc = "final" /\ phase = "loop"
    /\ p \in todo
    /\ todo' = todo \ {p}
    /\ final_dir' = Put(final_dir, p, GenerateXml(p))
    /\ order_log' = LogStage("final")
    /\ UNCHANGED <<inputs, title_dir, outline_dir, abstract_dir, references_dir,
                   subsections_dir, content_dir, pc, phase, prompt, loopvars,
                   last, provenance>>

FinalDone ==
    /\ pc = "final" /\ phase = "loop" /\ paper = NoPaper /\ todo = {}
    /\ pc' = NextStage(pc)
    /\ phase' = "init"
    /\ UNCHANGED <<disk, prompt, todo, loopvars, hist>>

(***************************************************************************)
(* Inputs.                                                                 *)
(***************************************************************************)
AllPrompts ==
    {"title_prompt", "outline_prompt", "abstract_prompt", "reference_selection_prompt",
     "subsection_prompt", "content_prompt"}

TrainRecords ==
    { [subject |-> <<"cs.AI">>, reference |-> <<"Deep nets", "Graph models">>,
       reference_content |-> <<[reference_num |-> 1, reference_abstract |-> "We study nets."]>>],
      [subject |-> <<"cs.AI", "cs.LG">>, reference |-> <<"Deep nets">>,
       reference_content |-> <<>>],
      [subject |-> <<>>, reference |-> <<"Deep nets">>, reference_content |-> <<>>],
      [subject |-> <<"cs.AI">>, reference |-> <<>>, reference_content |-> <<>>] }

TestFiles == {save_references_and_subject_as_txt(rec) : rec \in TrainRecords}

SubjectFile ==
    save_references_and_subject_as_txt(
        [subject |-> <<"cs.AI">>, reference |-> <<"Deep nets", "Graph models">>,
         reference_content |->
             <<[reference_num |-> 1, reference_abstract |-> "We study nets."]>>])

NoSubjectFile ==
    save_references_and_subject_as_txt(
        [subject |-> <<>>, reference |-> <<"Deep nets">>, reference_content |-> <<>>])

SurveyOfX == <<"A"," ","S","u","r","v","e","y"," ","o","f"," ","X">>

TitleResponses ==
    { TitleOpen \o SurveyOfX \o TitleClose,
      <<" ">> \o TitleOpen \o SurveyOfX \o TitleClose \o <<"\n">>,
      TitleOpen \o TitleClose,
      TitleOpen \o <<"<","t","i","t">> \o TitleOpen \o <<"l","e",">","X">> \o TitleClose,
      SurveyOfX,
      TitleOpen \o <<"A","\n","B">> \o TitleClose,
      <<"T",":"," ">> \o TitleOpen \o <<"X">> \o TitleClose }

OldTitle == TitleOpen \o <<"O","l","d">> \o TitleClose

Sec(c) == <<c>>

SixSections == <<Sec("A"), Sec("B"), Sec("C"), Sec("D"), Sec("E"), Sec("F")>>

OutlineResponses ==
    { JoinLines(<<Introduction>> \o SixSections \o <<Conclusion>>),
      JoinLines(<<Introduction, Sec("A"), Sec("B"), Sec("C"), Sec("D"), Conclusion>>),
      JoinLines(<<OutlineOpen, Introduction, Sec("A"), Sec("B"), Conclusion,
                  OutlineClose>>),
      JoinLines(<<Sec("A"), <<>>, Sec("B"), <<" ">>, Sec("C"), Sec("D"), Sec("E")>>),
      JoinLines(SixSections \o <<Sec("G"), Sec("H"), Sec("I"), Sec("J"), Sec("K")>>),
      Sec("A") }

\* A text of n one-letter words.
Words(n) == Rep(<<"w", " ">>, n)

AbstractResponses ==
    { AbstractOpen \o Words(AbstractMinWords) \o AbstractClose,
      <<"\n">> \o AbstractOpen \o Words(AbstractMaxWords) \o AbstractClose \o <<" ">>,
      AbstractOpen \o <<"<","a","b","s">> \o AbstractOpen
          \o <<"t","r","a","c","t",">"," ">> \o Words(AbstractMinWords - 1)
          \o AbstractClose,
      AbstractOpen \o Words(AbstractMinWords - 1) \o AbstractClose,
      AbstractOpen \o Words(AbstractMaxWords + 1) \o AbstractClose,
      Words(AbstractMinWords) }

GoodTitleDoc(p) == TitleDoc(p, TitleOpen \o SurveyOfX \o TitleClose)
EmptyTitleDoc(p) == TitleDoc(p, <<>>)
GoodOutlineDoc(p) ==
    OutlineDoc(p, JoinLines(<<Introduction>> \o SixSections \o <<Conclusion>>))
EmptyOutlineDoc(p) == OutlineDoc(p, <<>>)

Subs(lines) == SubsectionsOpen \o <<"\n">> \o JoinLines(lines) \o <<"\n">> \o SubsectionsClose

SubsectionResponses ==
    { Subs(<<<<"*"," ","A","1">>, <<"*"," ","A","2">>, <<"*"," ","A","3">>>>),
      <<" ">> \o SubsectionsOpen
          \o JoinLines(<<<<"*"," ","B","1">>, <<>>, <<" ","*"," ","B","2"," ">>,
                         <<"*"," ","B","3">>, <<"*"," "," ","B","4">>,
                         <<"*"," ","B","5">>>>)
          \o SubsectionsClose \o <<"\n">>,
      Subs(<<<<"*"," ","*"," ","C","1">>, <<"*"," ","C","2">>, <<"*"," ","C","3">>>>),
      Subs(<<<<"*"," ","D","1">>, <<"*"," ","D","2">>>>),
      Subs(<<<<"*"," ","E","1">>, <<"*"," ","E","2">>, <<"*"," ","E","3">>,
             <<"*"," ","E","4">>, <<"*"," ","E","5">>, <<"*"," ","E","6">>>>),
      Subs(<<<<"F","1">>, <<"*","F","2">>, <<"*"," ","F","3">>>>),
      JoinLines(<<<<"*"," ","G","1">>, <<"*"," ","G","2">>, <<"*"," ","G","3">>>>) }

RefLine(n, t) == <<"*", " ", "[", n, "]", " ", t>>

\* references/<id>.json as the Reference-Selection stage writes it
RefsDocs ==
    { <<[key |-> Sec("A"), value |-> <<RefLine("1", "x"), RefLine("2", "y")>>],
        [key |-> Sec("C"), value |-> <<RefLine("1", "x")>>],
        [key |-> Sec("D"), value |-> <<>>]>>,
      <<[key |-> Sec("B"), value |-> <<RefLine("2", "y")>>]>>,
      <<>> }

WrappedOutlineDoc(p) ==
    OutlineDoc(p, JoinLines(<<OutlineOpen, Introduction, Sec("A"), Sec("B"), Conclusion,
                              OutlineClose>>))

Cite == <<"[", "1", "]">>

\* Three paragraphs with n words in all, the first one closed by a citation.
ThreeParagraphs(n) ==
    Words(n \div 3) \o Cite \o ParagraphBreak \o Words(n \div 3) \o ParagraphBreak
        \o Words(n - 2 * (n \div 3) - 1)

ShortWords == 400

ContentResponses ==
    { <<" ">> \o ContentOpen \o <<"\n">> \o ThreeParagraphs(ContentMinWords)
          \o ContentClose \o <<"\n">>,
      ContentOpen \o ThreeParagraphs(ShortWords) \o ContentClose,
      <<"I"," ","c","a","n","n","o","t"," ","w","r","i","t","e"," ","t","h","i","s",".">>,
      <<" ">> }

\* subsections/<id>.json as the Subsection stage writes it
SubsectionsDocFile(p) ==
    SubsectionsDoc(p, <<[key |-> Introduction, value |-> <<<<"I","1">>>>],
                        [key |-> Sec("A"), value |-> <<<<"A","1">>, <<"A","2">>>>],
                        [key |-> Sec("B"), value |-> <<>>],
                        [key |-> Sec("C"), value |-> <<<<"C","1">>>>]>>)

Refs(lines) == RefsOpen \o <<"\n">> \o JoinLines(lines) \o <<"\n">> \o RefsClose

(* The answers of the model in a run of the whole pipeline. *)
PipelineTitleResponses == { TitleOpen \o SurveyOfX \o TitleClose, SurveyOfX }

\* A response of five lines, ended by a line break.
FiveLineOutline ==
    JoinLines(<<OutlineOpen, Introduction, Sec("A"), Conclusion, OutlineClose>>) \o <<"\n">>

PipelineOutlineResponses ==
    { JoinLines(<<OutlineOpen, Introduction, Sec("A"), Sec("B"), Conclusion,
                  OutlineClose>>),
      FiveLineOutline }

PipelineAbstractResponses ==
    { AbstractOpen \o Words(AbstractMinWords) \o AbstractClose,
      AbstractOpen \o AbstractClose }

PipelineRefsResponses ==
    { Refs(<<RefLine("1", "x")>>), RefsOpen \o RefsClose, RefLine("1", "x") }

PipelineSubsectionResponses ==
    { Subs(<<<<"*"," ","S","1">>, <<"*"," ","S","2">>, <<"*"," ","S","3">>>>),
      <<"*"," ","S","1">> }

PipelineContentResponses ==
    { ContentOpen \o <<"w", " ">> \o Cite \o ContentClose }

GoodRecord ==
    [subject |-> <<"cs.AI">>, reference |-> <<"Deep nets", "Graph models">>,
     reference_content |-> <<[reference_num |-> 1, reference_abstract |-> "We study nets."]>>]

\* A record in which two items carry the same reference_num, and one carries a
\* reference_num beyond the reference list.
RepeatedTagRecord ==
    [subject |-> <<"cs.AI">>, reference |-> <<"Deep nets", "Graph models", "Trees">>,
     reference_content |-> <<[reference_num |-> 2, reference_abstract |-> "Old."],
                             [reference_num |-> 1, reference_abstract |-> "A."],
                             [reference_num |-> 2, reference_abstract |-> ""],
                             [reference_num |-> 1, reference_abstract |-> "B."],
                             [reference_num |-> 4, reference_abstract |-> "Far."]>>]

NoReferencesRecord ==
    [subject |-> <<"cs.AI">>, reference |-> <<>>, reference_content |-> <<>>]

(* The artifacts of a paper as the Final Assembler may find them. *)
FinalOutlineDoc(p) ==
    OutlineDoc(p, JoinLines(<<OutlineOpen, Introduction, Sec("A"), Conclusion, Sec("B"),
                              Sec("C"), Sec("A"), OutlineClose>>))

ReservedOutlineDoc(p) == OutlineDoc(p, JoinLines(<<Introduction, Conclusion>>))

FinalSubsectionsDoc(p) ==
    SubsectionsDoc(p, <<[key |-> Introduction, value |-> <<<<"I","1">>>>],
                        [key |-> Sec("C"), value |-> <<<<"C","1">>, <<"C","2">>, <<"C","3">>>>],
                        [key |-> Sec("A"), value |-> <<<<"A","1">>, <<"A","2">>>>]>>)

FinalContentDoc(p) ==
    ContentDoc(p, <<[key |-> Sec("A"),
                     value |-> <<[key |-> <<"A","2">>, value |-> <<"a", " ", "[", "1", "]">>]>>],
                    [key |-> Sec("B"),
                     value |-> <<[key |-> <<"B","1">>, value |-> <<"b">>]>>],
                    [key |-> Sec("C"),
                     value |-> <<[key |-> <<"C","3">>, value |-> <<"c">>],
                                 [key |-> <<"C","1">>, value |-> <<>>]>>]>>)

IdleInit ==
    /\ phase = "init"
    /\ prompt = ""
    /\ todo = {}
    /\ paper = NoPaper
    /\ paper_info = NoInfo
    /\ sec_i = 0
    /\ sub_i = 0
    /\ messages = <<>>
    /\ retry_count = 0
    /\ acc = <<>>
    /\ acc2 = <<>>
    /\ ncalls = 0
    /\ last = NoLast
    /\ provenance = {}
    /\ order_log = <<>>

(***************************************************************************)
(* The Title stage run on its own (title.py main).                         *)
(***************************************************************************)
InitTitle ==
    /\ prompts = AllPrompts
    /\ train_dir = NoFiles
    /\ test_dir \in [Papers -> TestFiles]
    /\ title_dir \in {NoFiles, [p \in {"9901.001"} |-> TitleDoc(p, OldTitle)]}
    /\ outline_dir = NoFiles
    /\ abstract_dir = NoFiles
    /\ references_dir = NoFiles
    /\ subsections_dir = NoFiles
    /\ content_dir = NoFiles
    /\ final_dir = NoFiles
    /\ pc = "title"
    /\ IdleInit

NextTitle ==
    \/ TitleStart
    \/ \E p \in Papers : TitlePaper(p)
    \/ \E r \in TitleResponses : TitleCall(r)
    \/ TitleRaise
    \/ TitleDone

SpecTitle == InitTitle /\ [][NextTitle]_vars

(***************************************************************************)
(* The Outline stage run on its own (outline.py main).                     *)
(***************************************************************************)
InitOutline ==
    /\ prompts = AllPrompts
    /\ train_dir = NoFiles
    /\ test_dir \in [Papers -> TestFiles]
    /\ title_dir = NoFiles
    /\ outline_dir = NoFiles
    /\ abstract_dir = NoFiles
    /\ references_dir = NoFiles
    /\ subsections_dir = NoFiles
    /\ content_dir = NoFiles
    /\ final_dir = NoFiles
    /\ pc = "outline"
    /\ IdleInit

NextOutline ==
    \/ OutlineStart
    \/ \E p \in Papers : OutlinePaper(p)
    \/ \E r \in OutlineResponses : OutlineCall(r)
    \/ OutlineRaise
    \/ OutlineDone

SpecOutline == InitOutline /\ [][NextOutline]_vars

(***************************************************************************)
(* The Abstract stage run on its own (abstract.py main).                   *)
(***************************************************************************)
InitAbstract ==
    /\ prompts = AllPrompts
    /\ train_dir = NoFiles
    /\ test_dir \in { [p \in Papers |-> SubjectFile],
                      [p \in Papers |-> IF p = "9901.001" THEN SubjectFile
                                        ELSE NoSubjectFile],
                      [p \in {"9901.002"} |-> SubjectFile] }
    /\ title_dir \in { [p \in Papers |-> GoodTitleDoc(p)],
                       [p \in Papers |-> IF p = "9901.001" THEN GoodTitleDoc(p)
                                         ELSE EmptyTitleDoc(p)] }
    /\ outline_dir \in { [p \in Papers |-> GoodOutlineDoc(p)],
                         [p \in Papers |-> IF p = "9901.001" THEN EmptyOutlineDoc(p)
                                           ELSE GoodOutlineDoc(p)],
                         [p \in {"9901.001"} |-> GoodOutlineDoc(p)] }
    /\ abstract_dir = NoFiles
    /\ references_dir = NoFiles
    /\ subsections_dir = NoFiles
    /\ content_dir = NoFiles
    /\ final_dir = NoFiles
    /\ pc = "abstract"
    /\ IdleInit

NextAbstract ==
    \/ AbstractStart
    \/ \E p \in Papers : AbstractPaper(p)
    \/ \E r \in AbstractResponses : AbstractCall(r)
    \/ AbstractRaise
    \/ AbstractDone

SpecAbstract == InitAbstract /\ [][NextAbstract]_vars

(***************************************************************************)
(* The Subsection stage run on its own (subsectionagent.py main).          *)
(***************************************************************************)
InitSubsection ==
    /\ prompts = AllPrompts
    /\ train_dir = NoFiles
    /\ test_dir \in { [p \in Papers |-> SubjectFile],
                      [p \in Papers |-> IF p = "9901.001" THEN SubjectFile
                                        ELSE NoSubjectFile] }
    /\ title_dir = [p \in Papers |-> GoodTitleDoc(p)]
    /\ outline_dir = [p \in Papers |-> IF p = "9901.001" THEN GoodOutlineDoc(p)
                                       ELSE WrappedOutlineDoc(p)]
    /\ references_dir \in [{"9901.001"} -> RefsDocs] \cup [{"9901.002"} -> RefsDocs]
    /\ abstract_dir = NoFiles
    /\ subsections_dir = NoFiles
    /\ content_dir = NoFiles
    /\ final_dir = NoFiles
    /\ pc = "subsections"
    /\ IdleInit

NextSubsection ==
    \/ SubsectionStart
    \/ \E p \in Papers : SubsectionPaper(p)
    \/ \E r \in SubsectionResponses : SubsectionCall(r)
    \/ SubsectionRaise
    \/ SubsectionDone

SpecSubsection == InitSubsection /\ [][NextSubsection]_vars

(***************************************************************************)
(* The Content stage run on its own (content.py main).                     *)
(***************************************************************************)
InitContent ==
    /\ prompts = AllPrompts
    /\ train_dir = NoFiles
    /\ test_dir \in { [p \in Papers |-> SubjectFile],
                      [p \in Papers |-> IF p = "9901.001" THEN SubjectFile
                                        ELSE NoSubjectFile] }
    /\ title_dir = [p \in Papers |-> GoodTitleDoc(p)]
    /\ outline_dir = [p \in Papers |-> GoodOutlineDoc(p)]
    /\ references_dir =
           [p \in Papers |-> <<[key |-> Sec("A"), value |-> <<RefLine("1", "x")>>]>>]
    /\ abstract_dir = NoFiles
    /\ subsections_dir =
           IF "9901.002" \in DOMAIN test_dir /\ HasSubjectLine(test_dir["9901.002"])
           THEN [p \in {"9901.001"} |-> SubsectionsDocFile(p)]
           ELSE [p \in Papers |-> SubsectionsDocFile(p)]
    /\ content_dir = NoFiles
    /\ final_dir = NoFiles
    /\ pc = "content"
    /\ IdleInit

NextContent ==
    \/ ContentStart
    \/ \E p \in Papers : ContentPaper(p)
    \/ \E r \in ContentResponses : ContentCall(r)
    \/ ContentRaise
    \/ ContentDone

SpecContent == InitContent /\ [][NextContent]_vars

(***************************************************************************)
(* The whole pipeline (main.py main): generate_survey on a fresh tree.     *)
(***************************************************************************)
Init ==
    /\ prompts \in {AllPrompts, AllPrompts \ {"subsection_prompt"},
                    AllPrompts \ {"title_prompt"}}
    /\ train_dir \in { [p \in {"9901.001"} |-> GoodRecord],
                       [p \in Papers |-> IF p = "9901.001" THEN GoodRecord
                                         ELSE NoReferencesRecord] }
    /\ test_dir = NoFiles
    /\ title_dir = NoFiles
    /\ outline_dir = NoFiles
    /\ abstract_dir = NoFiles
    /\ references_dir = NoFiles
    /\ subsections_dir = NoFiles
    /\ content_dir = NoFiles
    /\ final_dir = NoFiles
    /\ pc = "split"
    /\ IdleInit

Next ==
    \/ process_all_json_files_and_save_txt
    \/ TitleStart
    \/ \E p \in Papers : TitlePaper(p)
    \/ \E r \in PipelineTitleResponses : TitleCall(r)
    \/ TitleRaise
    \/ TitleDone
    \/ OutlineStart
    \/ \E p \in Papers : OutlinePaper(p)
    \/ \E r \in PipelineOutlineResponses : OutlineCall(r)
    \/ OutlineRaise
    \/ OutlineDone
    \/ AbstractStart
    \/ \E p \in Papers : AbstractPaper(p)
    \/ \E r \in PipelineAbstractResponses : AbstractCall(r)
    \/ AbstractRaise
    \/ AbstractDone
    \/ RefsStart
    \/ \E p \in Papers : RefsPaper(p)
    \/ \E r \in PipelineRefsResponses : RefsCall(r)
    \/ RefsRaise
    \/ RefsDone
    \/ SubsectionStart
    \/ \E p \in Papers : SubsectionPaper(p)
    \/ \E r \in PipelineSubsectionResponses : SubsectionCall(r)
    \/ SubsectionRaise
    \/ SubsectionDone
    \/ ContentStart
    \/ \E p \in Papers : ContentPaper(p)
    \/ \E r \in PipelineContentResponses : ContentCall(r)
    \/ ContentDone
    \/ FinalStart
    \/ \E p \in Papers : FinalPaper(p)
    \/ FinalDone

Spec == Init /\ [][Next]_vars

(***************************************************************************)
(* The Reference-Selection stage run on its own (referenceselection.py     *)
(* main).                                                                  *)
(***************************************************************************)
RefsResponses ==
    { Refs(<<RefLine("1", "x"), RefLine("2", "y")>>),
      Refs(<<RefLine("9", "z")>>),
      RefsOpen \o RefsClose,
      RefLine("1", "x"),
      Refs(<<<<"[", "1", "]", " ", "x">>>>) }

InitRefs ==
    /\ prompts = AllPrompts
    /\ train_dir = NoFiles
    /\ test_dir = [p \in Papers |-> SubjectFile]
    /\ title_dir \in { [p \in Papers |-> GoodTitleDoc(p)],
                       [p \in {"9901.001"} |-> GoodTitleDoc(p)] }
    /\ outline_dir = [p \in Papers |-> IF p = "9901.001" THEN WrappedOutlineDoc(p)
                                       ELSE ReservedOutlineDoc(p)]
    /\ abstract_dir = NoFiles
    /\ references_dir = NoFiles
    /\ subsections_dir = NoFiles
    /\ content_dir = NoFiles
    /\ final_dir = NoFiles
    /\ pc = "references"
    /\ IdleInit

NextRefs ==
    \/ RefsStart
    \/ \E p \in Papers : RefsPaper(p)
    \/ \E r \in RefsResponses : RefsCall(r)
    \/ RefsRaise
    \/ RefsDone

SpecRefs == InitRefs /\ [][NextRefs]_vars

(***************************************************************************)
(* The Final Assembler run on its own (outputxml.py main).                 *)
(***************************************************************************)
InitFinal ==
    /\ prompts = AllPrompts
    /\ train_dir \in {NoFiles, [p \in {"9901.001"} |-> GoodRecord],
                      [p \in Papers |-> RepeatedTagRecord]}
    /\ test_dir = NoFiles
    /\ title_dir \in { [p \in Papers |-> GoodTitleDoc(p)],
                       [p \in {"9901.001"} |-> EmptyTitleDoc(p)] }
    /\ outline_dir \in { NoFiles,
                         [p \in {"9901.001"} |-> FinalOutlineDoc(p)],
                         [p \in {"9901.001"} |-> ReservedOutlineDoc(p)] }
    /\ abstract_dir \in { NoFiles,
                          [p \in {"9901.001"} |->
                              AbstractDoc(p, AbstractOpen \o <<"w">> \o AbstractClose)] }
    /\ references_dir = NoFiles
    /\ subsections_dir \in {NoFiles, [p \in {"9901.001"} |-> FinalSubsectionsDoc(p)]}
    /\ content_dir \in {NoFiles, [p \in {"9901.001"} |-> FinalContentDoc(p)]}
    /\ final_dir = NoFiles
    /\ pc = "final"
    /\ IdleInit

NextFinal ==
    \/ FinalStart
    \/ \E p \in Papers : FinalPaper(p)
    \/ FinalDone

SpecFinal == InitFinal /\ [][NextFinal]_vars

(***************************************************************************)
(* The Final Assembler run again over the files of its earlier run.        *)
(***************************************************************************)
\* outputxml.py main, started once more
FinalRerun ==
    /\ pc = Done
    /\ pc' = "final"
    /\ phase' = "init"
    /\ UNCHANGED <<disk, prompt, todo, loopvars, hist>>

NextFinalTwice ==
    \/ NextFinal
    \/ FinalRerun

SpecFinalTwice == InitFinal /\ [][NextFinalTwice]_vars

(***************************************************************************)
(* The Final Assembler run again after the Reference-Selection stage has   *)
(* written other selected references.                                      *)
(***************************************************************************)
\* ReferenceSelectionAgent.process_papers, as far as the assembler can see it: the
\* file of selected references of a paper is written anew between two assemblies.
ReselectReferences ==
    /\ pc = Done
    /\ \E p \in DOMAIN title_dir : \E doc \in RefsDocs :
           /\ IF p \in DOMAIN references_dir THEN references_dir[p] # doc ELSE TRUE
           /\ references_dir' = Put(references_dir, p, doc)
    /\ UNCHANGED <<inputs, title_dir, outline_dir, abstract_dir, subsections_dir,
                   content_dir, final_dir, ctl, loopvars, hist>>

InitFinalReselected ==
    /\ InitFinal
    /\ title_dir = [p \in {"9901.001"} |-> EmptyTitleDoc(p)]
    /\ abstract_dir = NoFiles

NextFinalReselected ==
    \/ NextFinalTwice
    \/ ReselectReferences

SpecFinalReselected == InitFinalReselected /\ [][NextFinalReselected]_vars

(***************************************************************************)
(* Claims.                                                                 *)
(***************************************************************************)
NonReserved(sections) == SelectSeq(sections, LAMBDA x : x \notin Reserved)

C2_OutlineSixToTen ==
    (last.stage = "outline" /\ ~last.raised) =>
        LET n == Len(NonReserved(outline_dir[last.paper].sections))
        IN  6 <= n /\ n <= 10

StoredAbstractWords(p) ==
    WordCount(Strip(ReSubTags(abstract_dir[p].abstract, AbstractOpen, AbstractClose)))

\* The body persisted in the ContentMap for a subsection, <<>> wrapped in a record
\* that says whether there is one.
StoredBody(p, section, subsection) ==
    IF /\ p \in DOMAIN content_dir
       /\ DictHas(content_dir[p].sections, section)
       /\ DictHas(DictGet(content_dir[p].sections, section), subsection)
    THEN [found |-> TRUE,
          body |-> DictGet(DictGet(content_dir[p].sections, section), subsection)]
    ELSE [found |-> FALSE, body |-> <<>>]

\* The three conditions of the content contract on a body.
MeetsContentContract(body) ==
    /\ ParagraphCount(body) >= 3
    /\ WordCount(body) >= 500
    /\ HasCitation(body)

\* C3: every content body persisted in the ContentMap has at least 3 paragraphs, at
\* least 500 words and a citation [digits].
C3_AllBodiesMeetContract ==
    \A p \in DOMAIN content_dir :
        \A i \in 1..Len(content_dir[p].sections) :
            \A j \in 1..Len(content_dir[p].sections[i].value) :
                MeetsContentContract(content_dir[p].sections[i].value[j].value)

\* C3 (as the code has it): every body persisted in the ContentMap that comes from a
\* response the verifier accepted has at least 3 paragraphs, at least 500 words and a
\* citation [digits]; a body taken from the last of three rejected responses need not.
C3_AcceptedBodiesMeetContract ==
    \A e \in provenance :
        (e.accepted /\ e.paper \in DOMAIN content_dir)
            => LET b == StoredBody(e.paper, e.section, e.subsection)
               IN  b.found /\ MeetsContentContract(b.body)

C3_Witness ==
    \E e \in provenance :
        /\ e.accepted /\ e.ncalls = 2 /\ e.paper \in DOMAIN content_dir
        /\ \E f \in provenance :
               /\ f.paper = e.paper /\ ~f.accepted /\ ~f.raised
               /\ StoredBody(f.paper, f.section, f.subsection).found

\* C4: when three consecutive responses for a subsection are rejected and the last
\* one is wrapped in <content>...</content>, the stage has made exactly three calls
\* for the subsection and the body persisted for it is the inner text of that last
\* response.
C4_ExhaustedPersistsLast ==
    \A e \in provenance :
        (/\ ~e.accepted /\ ~e.raised
         /\ StartsWith(e.response, ContentOpen) /\ EndsWith(e.response, ContentClose))
            => /\ e.ncalls = 3
               /\ e.paper \in DOMAIN content_dir
                      => LET b == StoredBody(e.paper, e.section, e.subsection)
                         IN  /\ b.found
                             /\ b.body = Strip(Slice(e.response, 9, 10))
                             /\ ~MeetsContentContract(b.body)

C4_Witness ==
    \E e \in provenance :
        /\ ~e.accepted /\ ~e.raised /\ e.ncalls = 3
        /\ StartsWith(e.response, ContentOpen) /\ EndsWith(e.response, ContentClose)
        /\ e.paper \in DOMAIN content_dir
        /\ WordCount(StoredBody(e.paper, e.section, e.subsection).body) = 400

\* C5: every abstract persisted by the Abstract stage has, after removing the markers
\* and trimming, between 200 and 500 words.
C5_AbstractWordCount ==
    \A p \in DOMAIN abstract_dir :
        200 <= StoredAbstractWords(p) /\ StoredAbstractWords(p) <= 500

C5_Witness ==
    /\ DOMAIN abstract_dir = Papers
    /\ StoredAbstractWords("9901.001") = 200
    /\ StoredAbstractWords("9901.002") = 500

C7_SubsectionCount ==
    \A p \in DOMAIN subsections_dir :
        \A i \in 1..Len(subsections_dir[p].sections) :
            LET n == Len(subsections_dir[p].sections[i].value)
            IN  3 <= n /\ n <= 5

C7_Witness ==
    \E p \in DOMAIN subsections_dir :
        /\ Len(subsections_dir[p].sections) = 2
        /\ Len(subsections_dir[p].sections[1].value) = 3
        /\ Len(subsections_dir[p].sections[2].value) = 5

\* C8: no subsection heading persisted in the SubsectionMap begins with the bullet
\* marker "*".
C8_NoLeadingBullet ==
    \A p \in DOMAIN subsections_dir :
        \A i \in 1..Len(subsections_dir[p].sections) :
            \A j \in 1..Len(subsections_dir[p].sections[i].value) :
                ~StartsWith(subsections_dir[p].sections[i].value[j], <<"*">>)

\* C9: when the Title verifier accepted a response, the title with its markers
\* stripped is a non-empty string.
C9_AcceptedTitleNonEmpty ==
    (last.stage = "title" /\ last.accepted) =>
        Strip(ReSubTags(last.response, TitleOpen, TitleClose)) # <<>>

\* The place of a step in the order Title, Outline, Abstract, Reference-Selection,
\* Subsection, Content, Final Assembly (the ingestion before them, the end after).
StageIndex(step) ==
    CASE step = "split" -> 0
      [] step = "title" -> 1
      [] step = "outline" -> 2
      [] step = "abstract" -> 3
      [] step = "references" -> 4
      [] step = "subsections" -> 5
      [] step = "content" -> 6
      [] step = "final" -> 7
      [] step = Done -> 8

\* The loop of the running stage has gone over all of its papers.
StageFinished == phase = "loop" /\ paper = NoPaper /\ todo = {}

\* C10: in the run-everything entry point the stages run in the order Title, Outline,
\* Abstract, Reference-Selection, Subsection, Content, Final Assembly: the stages
\* that have made a model call or written an artifact did so in that order, none of
\* them is later than the running one, and the run leaves a stage only for the next
\* one of the order (or by a raised error) once the stage has gone over all its papers.
C10_StagesInOrder ==
    /\ [](/\ \A i \in 1..Len(order_log) : \A j \in (i+1)..Len(order_log) :
                 StageIndex(order_log[i]) < StageIndex(order_log[j])
          /\ (pc # Aborted /\ order_log # <<>>)
                 => StageIndex(order_log[Len(order_log)]) <= StageIndex(pc))
    /\ [][pc' # pc =>
             \/ pc' = Aborted
             \/ /\ StageIndex(pc') = StageIndex(pc) + 1
                /\ pc = "split" \/ StageFinished]_vars

C10_Witness ==
    /\ pc = Done
    /\ order_log = <<"split", "title", "outline", "abstract", "references",
                     "subsections", "content", "final">>
    /\ \E p \in DOMAIN final_dir :
           \E i \in 1..Len(final_dir[p]) : final_dir[p][i].kind = "Subsection_text"

\* A step in which a paper fails in the running stage: the model call raises, or the
\* paper is passed over before any model call.
PaperFails ==
    \/ last' # last /\ last'.raised
    \/ /\ pc \notin {"split", "final"} /\ phase = "loop"
       /\ todo' # todo /\ paper' = NoPaper

C12_RaiseWritesNothing ==
    (last.stage = "title" /\ last.raised)
        => \/ last.paper \notin DOMAIN title_dir
           \/ title_dir[last.paper] = TitleDoc(last.paper, OldTitle)

\* The upstream artifacts every stage after Outline needs: a subject, a title and an
\* outline, none of them empty.
UpstreamComplete(p) ==
    /\ ReadSubjectFromTest(test_dir, p) # ""
    /\ ReadTitle(title_dir, p) # <<>>
    /\ ReadOutline(outline_dir, p) # <<>>

\* C13: a stage makes no model call and writes no artifact for a paper with an absent
\* or empty upstream artifact: the paper a stage after Outline is calling the model
\* for, and every paper with an artifact of such a stage, has a non-empty subject,
\* title and outline.
C13_NoCallOnIncompleteUpstream ==
    /\ (pc \in {"abstract", "references", "subsections", "content"} /\ paper # NoPaper)
           => UpstreamComplete(paper)
    /\ \A p \in DOMAIN abstract_dir \cup DOMAIN references_dir
                   \cup DOMAIN subsections_dir \cup DOMAIN content_dir :
           UpstreamComplete(p)

\* C14: the Content stage makes at most 3 model calls for a subsection and then is
\* done with it: what it returned is a response the verifier accepts, or, after the
\* third rejected response, that last response.
C14_ContentAtMostThreeCalls ==
    /\ (pc = "content" /\ paper # NoPaper) => (ncalls < 3 /\ retry_count = ncalls)
    /\ \A e \in provenance :
           /\ 1 <= e.ncalls /\ e.ncalls <= 3
           /\ e.accepted => VerifyContentFormat(e.response)
           /\ (~e.accepted /\ ~e.raised)
                  => /\ e.ncalls = 3
                     /\ ~VerifyContentFormat(e.response)
                     /\ (e.response # <<>> /\ e.paper \in DOMAIN content_dir)
                            => StoredBody(e.paper, e.section, e.subsection).body
                                   = ContentBody(e.response)

C14_Witness ==
    /\ \E e \in provenance : e.accepted /\ e.ncalls = 3
    /\ \E e \in provenance : ~e.accepted /\ ~e.raised /\ e.response = <<>>
    /\ \E e \in provenance : ~e.accepted /\ ~e.raised /\ e.response # <<>>

\* C15: the Reference-Selection stage of the pipeline makes at most 3 model calls for
\* a section, and after a third rejected response it emits what it extracts from it.
C15_RefsAtMostThreeCalls ==
    /\ (pc = "references" /\ paper # NoPaper) => ncalls < 3
    /\ last.stage = "references" => last.ncalls <= 3

\* C15 (as the code has it): the Reference-Selection stage of the pipeline asks again
\* after every rejected response, also after the third one, and what it returns for a
\* section is a response its verifier accepts.
C15_RefsAskUntilAccepted ==
    /\ (last.stage = "references" /\ ~last.raised)
           => last.accepted /\ StartsWith(last.response, RefsOpen)
                            /\ EndsWith(last.response, RefsClose)
    /\ (pc = "references" /\ paper # NoPaper /\ ncalls > 0)
           => /\ Len(messages) = 1 + 2 * ncalls
              /\ messages[Len(messages)].content = RefsCorrection

C15_Witness ==
    /\ last.stage = "references" /\ last.accepted /\ last.ncalls = 4
    /\ last.paper \in DOMAIN references_dir

C17_MissingFilesGiveEmptyFields ==
    /\ pc # Aborted
    /\ pc = Done => DOMAIN final_dir = DOMAIN title_dir
    /\ \A p \in Papers :
           LET doc == IF p \in DOMAIN final_dir THEN final_dir[p] ELSE GenerateXml(p)
               Kinds(k) == {i \in 1..Len(doc) : doc[i].kind = k}
           IN  /\ doc[1].kind = "Title" /\ doc[2].kind = "Abstract"
               /\ doc[Len(doc)].kind = "References"
               /\ p \notin DOMAIN title_dir => doc[1].text = <<>>
               /\ p \notin DOMAIN abstract_dir
                      => doc[2] = [kind |-> "Abstract", section |-> 0, subsection |-> 0,
                                   text |-> <<>>]
               /\ p \notin DOMAIN outline_dir => Len(doc) = 3
               /\ p \notin DOMAIN subsections_dir
                      => Kinds("Subsection_title") = {} /\ Kinds("Subsection_text") = {}
               /\ p \notin DOMAIN content_dir => Kinds("Subsection_text") = {}
               /\ p \notin DOMAIN train_dir => doc[Len(doc)].text = <<>>

C17_Witness ==
    /\ pc = Done
    /\ \E p \in DOMAIN final_dir :
           /\ p \notin DOMAIN abstract_dir /\ p \notin DOMAIN content_dir
           /\ p \notin DOMAIN train_dir
           /\ \E i \in 1..Len(final_dir[p]) : final_dir[p][i].kind = "Subsection_title"
    /\ \E p \in DOMAIN final_dir : Len(final_dir[p]) = 3

\* C18: once the whole pipeline has completed, every paper that was ingested (has a
\* test file) has a final document, whatever happened to it in the stages.
C18_EveryIngestedPaperHasFinal ==
    pc = Done => DOMAIN test_dir \subseteq DOMAIN final_dir

\* The Section_<i>_title elements of a document, in document order.
SectionTitles(doc) == SelectSeq(doc, LAMBDA e : e.kind = "Section_title")

\* C19: the section titles of a final document are numbered 1..k in outline order
\* without gap or repeat, k being the number of outline entries that are not reserved,
\* and no reserved heading has a section title element.
C19_SectionsNumberedWithoutGaps ==
    \A p \in DOMAIN final_dir :
        LET titles == SectionTitles(final_dir[p])
            sections == ReadSections(p)
            kept == {x \in 1..Len(sections) : sections[x] \notin Reserved}
            Rank(x) == Cardinality({y \in kept : y <= x})
        IN  /\ Len(titles) = Cardinality(kept)
            /\ \A i \in 1..Len(titles) :
                   /\ titles[i].section = i
                   /\ titles[i].text \notin Reserved
                   /\ \E x \in kept : Rank(x) = i /\ sections[x] = titles[i].text

C19_Witness ==
    /\ pc = Done
    /\ \E p \in DOMAIN final_dir :
           /\ Len(SectionTitles(final_dir[p])) = 4
           /\ \E x \in 2..(Len(ReadSections(p)) - 1) : ReadSections(p)[x] \in Reserved

\* C20: within section i the subsection titles are numbered 1..m in SubsectionMap
\* order; a subsection title is followed immediately by the text element with the
\* same numbers when the ContentMap has the subsection, and by no text element when
\* it has not; a text element never comes without its title.
C20_SubsectionsNumberedAndPaired ==
    \A p \in DOMAIN final_dir :
        LET doc == final_dir[p]
            titles == SectionTitles(doc)
            subsections == ReadSubsections(p)
            content == ReadContent(p)
            SubsOf(i) == IF DictHas(subsections, titles[i].text)
                       THEN DictGet(subsections, titles[i].text) ELSE <<>>
            SubTitles(i) == SelectSeq(doc, LAMBDA e : /\ e.kind = "Subsection_title"
                                                      /\ e.section = i)
            InContent(i, s) == /\ DictHas(content, titles[i].text)
                               /\ DictHas(DictGet(content, titles[i].text), s)
        IN  /\ \A i \in 1..Len(titles) :
                   /\ Len(SubTitles(i)) = Len(SubsOf(i))
                   /\ \A j \in 1..Len(SubsOf(i)) :
                          /\ SubTitles(i)[j].subsection = j
                          /\ SubTitles(i)[j].text = SubsOf(i)[j]
            /\ \A q \in 1..Len(doc) :
                   /\ doc[q].kind = "Subsection_title" =>
                          /\ doc[q].section \in 1..Len(titles)
                          /\ IF InContent(doc[q].section, doc[q].text)
                             THEN doc[q + 1] =
                                      [kind |-> "Subsection_text",
                                       section |-> doc[q].section,
                                       subsection |-> doc[q].subsection,
                                       text |-> DictGet(DictGet(content,
                                                   titles[doc[q].section].text),
                                                   doc[q].text)]
                             ELSE doc[q + 1].kind # "Subsection_text"
                   /\ doc[q].kind = "Subsection_text" =>
                          doc[q - 1].kind = "Subsection_title"

C20_Witness ==
    /\ pc = Done
    /\ \E p \in DOMAIN final_dir :
           \E q, r \in 1..(Len(final_dir[p]) - 1) :
               /\ final_dir[p][q].kind = "Subsection_title"
               /\ final_dir[p][q].subsection = 2
               /\ final_dir[p][q + 1].kind = "Subsection_text"
               /\ final_dir[p][r].kind = "Subsection_title"
               /\ final_dir[p][r].section = final_dir[p][q].section
               /\ final_dir[p][r + 1].kind # "Subsection_text"

\* The bibliography of a final document.
Bibliography(doc) == doc[Len(doc)].text

\* C21 as stated: the i-th entry has an abstract exactly when some item of the raw
\* record tagged [i] has a non-empty abstract, and the abstract attached is the
\* abstract of such an item; the entries are the raw references in order.
C21_AbstractWhenSomeItemTagged ==
    \A p \in DOMAIN final_dir \cap DOMAIN train_dir :
        LET bib == Bibliography(final_dir[p])
            rec == train_dir[p]
            rc == rec.reference_content
        IN  /\ Len(bib) = Len(rec.reference)
            /\ \A i \in 1..Len(bib) :
                   /\ bib[i].ref = rec.reference[i]
                   /\ bib[i].abstract # ""
                          <=> \E k \in 1..Len(rc) : /\ rc[k].reference_num = i
                                                    /\ rc[k].reference_abstract # ""
                   /\ bib[i].abstract # ""
                          => \E k \in 1..Len(rc) : /\ rc[k].reference_num = i
                                                   /\ rc[k].reference_abstract = bib[i].abstract

\* C21 (amended): the i-th entry has an abstract exactly when the last item of the raw
\* record tagged [i] has a non-empty abstract, and the abstract attached is that
\* item's; the entries are the raw references in order.
C21_AbstractOfLastItemTagged ==
    \A p \in DOMAIN final_dir \cap DOMAIN train_dir :
        LET bib == Bibliography(final_dir[p])
            rec == train_dir[p]
            rc == rec.reference_content
            IsLast(k, i) == /\ rc[k].reference_num = i
                            /\ \A j \in (k + 1)..Len(rc) : rc[j].reference_num # i
        IN  /\ Len(bib) = Len(rec.reference)
            /\ \A i \in 1..Len(bib) :
                   /\ bib[i].ref = rec.reference[i]
                   /\ \/ /\ \A k \in 1..Len(rc) : rc[k].reference_num # i
                         /\ bib[i].abstract = ""
                      \/ \E k \in 1..Len(rc) : /\ IsLast(k, i)
                                               /\ bib[i].abstract = rc[k].reference_abstract

C21_Witness ==
    /\ pc = Done
    /\ \E p \in DOMAIN final_dir \cap DOMAIN train_dir :
           /\ train_dir[p] = RepeatedTagRecord
           /\ Len(Bibliography(final_dir[p])) = 3
           /\ Bibliography(final_dir[p])[1].abstract = "B."
           /\ Bibliography(final_dir[p])[2].abstract = ""
           /\ Bibliography(final_dir[p])[3].abstract = ""

C23_IndependentOfSelectedReferences ==
    \A p \in DOMAIN final_dir :
        /\ final_dir[p] = GenerateXml(p)
        /\ p \in DOMAIN train_dir =>
               /\ Len(Bibliography(final_dir[p])) = Len(train_dir[p].reference)
               /\ \A i \in 1..Len(train_dir[p].reference) :
                      Bibliography(final_dir[p])[i].ref = train_dir[p].reference[i]

\* A second assembly is under way after the selected references of a paper with a
\* raw record were written anew.
C23_Witness ==
    /\ pc = "final" /\ phase = "loop" /\ todo = {}
    /\ \E p \in DOMAIN final_dir \cap DOMAIN train_dir \cap DOMAIN references_dir :
           /\ references_dir[p] # <<>>
           /\ Bibliography(final_dir[p]) # <<>>

\* C24: stripping the markers is idempotent; here for the title readers: the title a
\* reader extracts from a stored title artifact is left as it is by the same
\* extraction, re.sub(r'<title>|</title>', '', t).strip().
C24_StrippingIdempotent ==
    \A p \in DOMAIN title_dir :
        LET t == ReadTitle(title_dir, p)
        IN  Strip(ReSubTags(t, TitleOpen, TitleClose)) = t

\* The template key of a stage in the prompt template store.
TemplateKey(stage) ==
    CASE stage = "title" -> "title_prompt"
      [] stage = "outline" -> "outline_prompt"
      [] stage = "abstract" -> "abstract_prompt"
      [] stage = "references" -> "reference_selection_prompt"
      [] stage = "subsections" -> "subsection_prompt"
      [] stage = "content" -> "content_prompt"

ModelStages == {"title", "outline", "abstract", "references", "subsections", "content"}

\* C25: a stage whose template key is missing from the store is never constructed:
\* no stage goes over its papers without its template key in the store.
C25_MissingTemplateFailsConstruction ==
    \A stage \in ModelStages :
        (pc = stage /\ phase = "loop") => TemplateKey(stage) \in prompts

\* C26: with a template key missing from the store, the run-everything entry point
\* makes no model call and writes no artifact.
C26_MissingTemplateAbortsAtStart ==
    prompts # AllPrompts =>
        /\ last = NoLast
        /\ title_dir = NoFiles /\ outline_dir = NoFiles /\ abstract_dir = NoFiles
        /\ references_dir = NoFiles /\ subsections_dir = NoFiles
        /\ content_dir = NoFiles /\ final_dir = NoFiles

\* The fixed correction instruction of a stage.
CorrectionOf(stage) ==
    CASE stage = "title" -> TitleCorrection
      [] stage = "outline" -> OutlineCorrection
      [] stage = "abstract" -> AbstractCorrection
      [] stage = "references" -> RefsCorrection
      [] stage = "subsections" -> SubsectionCorrection
      [] stage = "content" -> ContentCorrection

\* The responses the model may give to a stage.
ResponsesTo(stage) ==
    CASE stage = "title" -> PipelineTitleResponses
      [] stage = "outline" -> PipelineOutlineResponses
      [] stage = "abstract" -> PipelineAbstractResponses
      [] stage = "references" -> PipelineRefsResponses
      [] stage = "subsections" -> PipelineSubsectionResponses
      [] stage = "content" -> PipelineContentResponses

\* The shape of the conversation of a paper after k rejected responses: 2k+1
\* messages, the formatted prompt first, then k times an assistant turn and the
\* correction instruction of the stage as a user turn.
ConversationShape ==
    (pc \in ModelStages /\ paper # NoPaper /\ messages # <<>>) =>
        /\ Len(messages) = 2 * ncalls + 1
        /\ messages[1].role = "user"
        /\ \A k \in 1..ncalls :
               /\ messages[2 * k].role = "assistant"
               /\ messages[2 * k + 1] = UserMessage(CorrectionOf(pc))

\* A step that goes on with the conversation of the paper rather than starting one.
Reprompts == Len(messages') > 1 /\ messages' # messages

\* C27 as stated: the conversation has the shape above, a rejected response leaves
\* what is there unchanged, and the assistant turn appended for it is the raw response
\* of the model.
C27_ConversationOfRawResponses ==
    /\ []ConversationShape
    /\ [][Reprompts =>
             /\ Len(messages') = Len(messages) + 2
             /\ SubSeq(messages', 1, Len(messages)) = messages
             /\ ncalls' = ncalls + 1
             /\ messages'[Len(messages') - 1].content \in ResponsesTo(pc)]_vars

\* C27 (amended): as above, the assistant turn being the response trimmed of the white
\* space around it.
C27_ConversationOfTrimmedResponses ==
    /\ []ConversationShape
    /\ [][Reprompts =>
             /\ Len(messages') = Len(messages) + 2
             /\ SubSeq(messages', 1, Len(messages)) = messages
             /\ ncalls' = ncalls + 1
             /\ messages'[Len(messages') - 1].content
                    \in {Strip(r) : r \in ResponsesTo(pc)}]_vars

\* The Outline stage is about to call a second time after a response of five lines.
C27_Witness ==
    /\ pc = "outline" /\ paper # NoPaper /\ ncalls = 1
    /\ messages = <<messages[1], AssistantMessage(Strip(FiveLineOutline)),
                    UserMessage(OutlineCorrection)>>
    /\ Len(NonBlankLines(Strip(FiveLineOutline))) = 5

UnboundedStages == {"title", "subsections"}

\* C28: the Title and Subsection stages never give up: the response a call returns
\* without an error is an accepted one (a one-line <title>...</title>, a verified
\* <subsections> block), returned at call k+1 after k rejected responses; a rejected
\* response is followed by another call for the same paper and nothing is written
\* for it.
C28_NeverGivesUp ==
    /\ []((last.stage \in UnboundedStages /\ ~last.raised) =>
             /\ last.accepted
             /\ last.stage = "title" =>
                    /\ StartsWith(last.response, TitleOpen)
                    /\ EndsWith(last.response, TitleClose)
                    /\ "\n" \notin {last.response[i] : i \in 1..Len(last.response)}
             /\ last.stage = "subsections" => VerifySubsectionsFormat(last.response))
    /\ [][(last' # last /\ last'.stage \in UnboundedStages /\ ~last'.raised) =>
             /\ last'.ncalls = ((Len(messages) - 1) \div 2) + 1
             /\ last'.response = Strip(last'.raw)]_vars
    /\ [][(pc \in UnboundedStages /\ Reprompts) =>
             /\ paper' = paper /\ last' = last /\ pc' = pc
             /\ title_dir' = title_dir /\ subsections_dir' = subsections_dir]_vars

C28_Witness ==
    /\ last.stage = "title" /\ last.accepted /\ ~last.raised
    /\ last.ncalls = MaxAttempts
    /\ last.paper \in DOMAIN title_dir
    /\ title_dir[last.paper].title = last.response

\* C29: a step changes artifacts of the kind of the running stage only: each artifact
\* directory changes only while its stage runs, the Final Assembler changes only the
\* final documents, and the corpus records and the template store never change.
C29_StageWritesOnlyItsKind ==
    [][/\ title_dir' # title_dir => pc = "title"
       /\ outline_dir' # outline_dir => pc = "outline"
       /\ abstract_dir' # abstract_dir => pc = "abstract"
       /\ references_dir' # references_dir => pc = "references"
       /\ subsections_dir' # subsections_dir => pc = "subsections"
       /\ content_dir' # content_dir => pc = "content"
       /\ final_dir' # final_dir => pc = "final"
       /\ test_dir' # test_dir => pc = "split"
       /\ train_dir' = train_dir /\ prompts' = prompts]_vars

C29_Witness ==
    /\ pc = Done
    /\ title_dir # NoFiles /\ outline_dir # NoFiles /\ abstract_dir # NoFiles
    /\ references_dir # NoFiles /\ subsections_dir # NoFiles /\ content_dir # NoFiles
    /\ final_dir # NoFiles

SectionStages == {"references", "subsections", "content"}

\* C31: the Reference-Selection, Subsection and Content stages never call the model
\* for a section headed "Introduction" or "Conclusion", and no such heading is a key
\* of a persisted SectionReferenceMap, SubsectionMap or ContentMap.
C31_ReservedHeadingsExcluded ==
    /\ (pc \in {"references", "subsections"} /\ paper # NoPaper)
           => paper_info.outline[sec_i] \notin Reserved
    /\ (pc = "content" /\ paper # NoPaper)
           => paper_info.subsections[sec_i].key \notin Reserved
    /\ last.stage \in SectionStages => last.section \notin Reserved
    /\ \A p \in DOMAIN references_dir : DictKeys(references_dir[p]) \cap Reserved = {}
    /\ \A p \in DOMAIN subsections_dir :
           DictKeys(subsections_dir[p].sections) \cap Reserved = {}
    /\ \A p \in DOMAIN content_dir : DictKeys(content_dir[p].sections) \cap Reserved = {}

C31_Witness ==
    /\ pc = Done
    /\ \E p \in DOMAIN content_dir :
           /\ content_dir[p].sections # <<>>
           /\ subsections_dir[p].sections # <<>>
           /\ references_dir[p] # <<>>
           /\ Introduction \in {outline_dir[p].sections[i] :
                                    i \in 1..Len(outline_dir[p].sections)}
           /\ Conclusion \in {outline_dir[p].sections[i] :
                                  i \in 1..Len(outline_dir[p].sections)}

\* The number written with the digits ds.
RECURSIVE DigitsValue(_)
DigitsValue(ds) ==
    IF ds = <<>> THEN 0
    ELSE 10 * DigitsValue(SubSeq(ds, 1, Len(ds) - 1))
             + (CHOOSE d \in 0..9 : ToString(d) = ds[Len(ds)])

\* The numbers n of the tags [n] of a line.
CitedNumbers(line) ==
    { DigitsValue(SubSeq(line, i + 1, j - 1)) :
          <<i, j>> \in { q \in (1..Len(line)) \X (1..Len(line)) :
                           /\ q[2] >= q[1] + 2
                           /\ line[q[1]] = "[" /\ line[q[2]] = "]"
                           /\ \A k \in (q[1] + 1)..(q[2] - 1) : line[k] \in Digits } }

\* C32: every line persisted in a SectionReferenceMap starts with the bullet marker
\* and has a tag [n] with n between 1 and the number of references of the paper.
C32_LinesCiteExistingReferences ==
    \A p \in DOMAIN references_dir :
        \A i \in 1..Len(references_dir[p]) :
            \A k \in 1..Len(references_dir[p][i].value) :
                LET line == references_dir[p][i].value[k]
                    count == Len(RefsReadPaperInfo(p).info.references)
                IN  /\ StartsWith(line, <<"*">>)
                    /\ \E n \in CitedNumbers(line) : 1 <= n /\ n <= count

\* C37: every section key of a persisted SectionReferenceMap maps to a list with at
\* least one reference line.
C37_SelectedListsNonEmpty ==
    \A p \in DOMAIN references_dir :
        \A i \in 1..Len(references_dir[p]) : references_dir[p][i].value # <<>>

\* The response with the <content> marker taken off its start and the </content>
\* marker off its end, where they are there, and the white space around the rest.
Unwrapped(response) ==
    LET s == Strip(response)
        a == IF StartsWith(s, ContentOpen)
             THEN SubSeq(s, Len(ContentOpen) + 1, Len(s)) ELSE s
        b == IF EndsWith(a, ContentClose)
             THEN SubSeq(a, 1, Len(a) - Len(ContentClose)) ELSE a
    IN  Strip(b)

\* C33: a body the Content stage persists for a subsection is the last response for
\* it without the wrapping markers and the white space around: nothing else of the
\* response is dropped, whether the response was accepted or was the last of the
\* rejected ones.
C33_BodyIsUnwrappedResponse ==
    \A e \in provenance :
        LET b == StoredBody(e.paper, e.section, e.subsection)
        IN  b.found => b.body = Unwrapped(e.response)

\* C34: the Outline stage calls the model at most twice for a paper: while a paper is
\* in hand at most one call has been made, and a step taken after one call ends the
\* paper: the second response is returned and persisted as it is, verified or not.
C34_OutlineEndsAfterTwoCalls ==
    /\ []((pc = "outline" /\ paper # NoPaper) => ncalls \in {0, 1})
    /\ [][(pc = "outline" /\ paper # NoPaper /\ ncalls = 1) =>
             /\ paper' = NoPaper
             /\ last'.stage = "outline" /\ last'.paper = paper /\ last'.ncalls = 2
             /\ ~last'.raised =>
                    /\ last'.response = Strip(last'.raw)
                    /\ outline_dir'[paper] = OutlineDoc(paper, last'.response)]_vars

C34_Witness ==
    /\ last.stage = "outline" /\ ~last.raised /\ last.ncalls = 2
    /\ ~VerifyOutlineFormat(last.response)
    /\ Len(NonBlankLines(last.response)) > 10
    /\ Len(outline_dir[last.paper].sections) > 10

\* C35: every stage resolves the same subject for a paper: the subject the Title stage
\* puts in its prompt for the paper in hand, and the subject the Outline and the
\* Reference-Selection extractors read from the same text file, is the subject the
\* Abstract, Subsection and Content readers take from it.
C35_StagesResolveSameSubject ==
    (pc = "title" /\ paper # NoPaper) =>
        LET later == ReadSubjectFromTest(test_dir, paper)
        IN  /\ paper_info.subject = later
            /\ messages[1] = UserMessage(FormatPrompt(prompt,
                                 [subject |-> later,
                                  references |-> paper_info.references]))
            /\ OutlineExtractContent(test_dir[paper], "", <<>>, "").subject = later
            /\ RefsExtractContent(test_dir[paper], "", <<>>, "").subject = later

\* C36: after a full run the artifacts of a paper are nested: a key of its subsection
\* map is a heading of its persisted outline other than Introduction and Conclusion
\* that has a non-empty list of selected references; a section key of its content
\* map is a key of its subsection map; and a subsection key under that section is
\* an entry of the section's list in the subsection map.
C36_ArtifactsNested ==
    pc = Done =>
        /\ \A p \in DOMAIN subsections_dir :
               /\ p \in DOMAIN outline_dir /\ p \in DOMAIN references_dir
               /\ \A k \in DictKeys(subsections_dir[p].sections) :
                      /\ k \notin Reserved
                      /\ \E i \in 1..Len(outline_dir[p].sections) :
                             outline_dir[p].sections[i] = k
                      /\ DictHas(references_dir[p], k)
                      /\ DictGet(references_dir[p], k) # <<>>
        /\ \A p \in DOMAIN content_dir :
               /\ p \in DOMAIN subsections_dir
               /\ \A k \in DictKeys(content_dir[p].sections) :
                      /\ DictHas(subsections_dir[p].sections, k)
                      /\ \A sub \in DictKeys(DictGet(content_dir[p].sections, k)) :
                             \E i \in 1..Len(DictGet(subsections_dir[p].sections, k)) :
                                 DictGet(subsections_dir[p].sections, k)[i] = sub

\* A finished run in which a heading of the outline got an empty list of references
\* and so no subsections, next to a heading that got all three artifacts.
C36_Witness ==
    /\ pc = Done
    /\ \E p \in DOMAIN content_dir :
           /\ content_dir[p].sections # <<>>
           /\ \E k \in DictKeys(references_dir[p]) :
                  /\ DictGet(references_dir[p], k) = <<>>
                  /\ ~DictHas(subsections_dir[p].sections, k)

\* The stages whose retry loop has no bound.
RetryStages == {"title", "abstract", "references", "subsections"}

\* Where the run is: the step, whether its agent is built, the papers gone over, whether
\* the paper in hand is finished, the section and subsection reached, and the calls
\* made in a loop that counts them.
Position ==
    <<IF pc = Aborted THEN StageIndex(Done) + 1 ELSE StageIndex(pc),
      IF phase = "init" THEN 0 ELSE 1,
      Cardinality(Papers) - Cardinality(todo),
      IF paper = NoPaper THEN 1 ELSE 0,
      sec_i,
      sub_i,
      IF pc \in {"outline", "content"} THEN ncalls ELSE 0>>

\* b is further in the run than a
Ahead(a, b) ==
    \E i \in 1..Len(a) : a[i] < b[i] /\ \A j \in 1..(i - 1) : a[j] = b[j]

\* A step in which a loop without a bound gets a rejected response: no outcome.
RejectedStep == pc \in RetryStages /\ paper # NoPaper /\ last' = last

\* The run stays where it is: same step, same paper, same section, nothing written.
StaysInPlace ==
    /\ Position' = Position
    /\ paper' = paper /\ todo' = todo
    /\ ncalls' = ncalls + 1
    /\ UNCHANGED <<title_dir, outline_dir, abstract_dir, references_dir,
                   subsections_dir, content_dir, final_dir>>

\* Every step but a rejected response in a loop without a bound takes the run further,
\* and a rejected response leaves it where it is.
RunProgresses == IF RejectedStep THEN StaysInPlace ELSE Ahead(Position, Position')

\* A run that has ended has written the final document of every paper that has a
\* Title artifact.
EndedRunWroteFinals ==
    pc = Done => \A p \in DOMAIN title_dir :
                     p \in DOMAIN final_dir /\ final_dir[p] = GenerateXml(p)

=============================================================================
